---- MODULE Spec2Model ----
(***************************************************************************)
(* Model of the codebase-ai-assistant repository.                          *)
(*                                                                         *)
(* Part I   - Python string helpers (str.lower, str.split, "in",           *)
(*            str.startswith) computed character by character.             *)
(* Part II  - ImpactDetector (services/impact_detector.py): the pure       *)
(*            helpers and the handler analyze_change_impact, with the      *)
(*            outcomes of ClaudeService.analyze_impact it depends on.      *)
(* Part III - RepositoryAnalyzer (services/repository_analyzer.py):        *)
(*            build_dependency_graph, _parse_repository and                *)
(*            get_relevant_files, and the parser parse_python_file         *)
(*            (utils/ast_parser.py).                                       *)
(* Part IV  - the repositories table with connect_repository and           *)
(*            refresh_repository, served by concurrent request threads.    *)
(* Part V   - generated code changes: the generate, approve and apply      *)
(*            requests on the code_changes table.                          *)
(* Part VI  - ClaudeService.analyze_architecture_question and its cache    *)
(*            of system contexts.                                          *)
(*                                                                         *)
(* Spec applies the detector, IndexSpec the analyzer and the parser,       *)
(* StoreSpec runs the requests on the repositories table, ChangeSpec       *)
(* those on code changes, CacheSpec the questions on one ClaudeService.    *)
(*                                                                         *)
(* Strings are TLA+ strings; TLC evaluates Len, SubSeq and \o on them.     *)
(***************************************************************************)
EXTENDS Integers, Sequences, FiniteSets, TLC

VARIABLES
    \* ---- calculate_risk_level applied as a pure function ----
    rpc,              \* "init" | "once" | "twice": calls made so far
    impact_data,      \* argument of the latest calculate_risk_level call
    risk_out,         \* result of the latest call
    prev_data,        \* argument of the call before it
    prev_out,         \* result of the call before it
    \* ---- one analyze_change_impact request ----
    pc,               \* "idle" | "done" (a report was returned) |
                      \* "failed" (an exception reached the caller)
    change_request,   \* the change description
    structure,        \* repo_data['structure_json']['structure']
    dependency_graph, \* repo_data['structure_json']['dependency_graph']
    response,         \* what the external service did with the request
    claude_analysis,  \* value returned by ClaudeService.analyze_impact
    seed_files,       \* local affected_files after seed selection
    used_fallback,    \* whether _find_files_by_keywords was called
    report,           \* the returned dictionary
    error,            \* class of the exception that reached the caller, or ""
    \* ---- RepositoryAnalyzer and the parser applied to one input ----
    ipc,              \* "idle" | "graph" | "file" | "tree" | "relevant": what
                      \* was applied
    graph_structure,  \* argument of build_dependency_graph
    graph_result,     \* its return value
    ast_has_Str,      \* whether the interpreter's ast module has ast.Str
    source_file,      \* the file given to parse_python_file
    parse_result,     \* what parse_python_file gave
    repo_tree,        \* the working tree given to _parse_repository
    repo_index,       \* the structure _parse_repository returned
    index_error,      \* class of the exception it raised, or ""
    parser_state,     \* what the ASTParser of the latest parse_python_file
                      \* call had collected when the call ended
    parser_calls,     \* the files _parse_repository gave to parse_python_file
    rel_query,        \* arguments of get_relevant_files: the query,
    rel_repo,         \* the record the store has for repo_id,
    rel_top_k,        \* and top_k
    rel_result,       \* the list it returned
    rel_error,        \* class of the exception it raised, or ""
    repositories,     \* the repositories table
    index_runs,       \* number of indexing runs so far
    calls,            \* per request thread: the connect or refresh call
                      \* it serves and how far the call is
    seen,             \* what the latest analyze request fetched
    code_changes,     \* the code_changes table
    writes,           \* the file writes made in the working tree
    change_call,      \* the latest request on code changes and its outcome
    _cached_contexts, \* ClaudeService._cached_contexts
    question_call     \* the latest analyze_architecture_question call: its
                      \* arguments and the system context it sent

riskVars == <<rpc, impact_data, risk_out, prev_data, prev_out>>
analyzeVars == <<pc, change_request, structure, dependency_graph, response,
                 claude_analysis, seed_files, used_fallback, report, error>>
graphVars == <<graph_structure, graph_result>>
parserVars == <<ast_has_Str, source_file, parse_result, repo_tree, repo_index,
                index_error, parser_state, parser_calls>>
relevanceVars == <<rel_query, rel_repo, rel_top_k, rel_result, rel_error>>
indexVars == <<ipc, graphVars, parserVars, relevanceVars>>
storeVars == <<repositories, index_runs, calls, seen>>
changeVars == <<code_changes, writes, change_call>>
cacheVars == <<_cached_contexts, question_call>>
serviceVars == <<storeVars, changeVars, cacheVars>>
vars == <<riskVars, analyzeVars, indexVars, serviceVars>>

(***************************************************************************)
(* Part I - Python string helpers                                          *)
(***************************************************************************)
UpperLetters == "ABCDEFGHIJKLMNOPQRSTUVWXYZ"
LowerLetters == "abcdefghijklmnopqrstuvwxyz"
Whitespace == {" ", "\t", "\n"}

CharAt(s, i) == SubSeq(s, i, i)

UpperSet == {CharAt(UpperLetters, i) : i \in 1..Len(UpperLetters)}

\* str.lower on one character
LowerOf == [c \in UpperSet |->
               CharAt(LowerLetters,
                      CHOOSE i \in 1..Len(UpperLetters) : CharAt(UpperLetters, i) = c)]

LowerChar(c) == IF c \in UpperSet THEN LowerOf[c] ELSE c

\* str.lower()
RECURSIVE lower(_)
lower(s) ==
    IF Len(s) = 0 THEN ""
    ELSE LowerChar(CharAt(s, 1)) \o lower(SubSeq(s, 2, Len(s)))

\* Python's  sub in s  on strings: substring test (the empty string is in
\* every string)
StrIn(sub, s) ==
    \E i \in 1..(Len(s) - Len(sub) + 1) : SubSeq(s, i, i + Len(sub) - 1) = sub

\* str.startswith(prefix)
startswith(s, prefix) ==
    Len(s) >= Len(prefix) /\ SubSeq(s, 1, Len(prefix)) = prefix

\* str.split() without arguments: the maximal runs of non-whitespace
\* characters, in order; cur is the run being read
RECURSIVE SplitFrom(_, _, _)
SplitFrom(s, i, cur) ==
    IF i > Len(s)
    THEN IF Len(cur) = 0 THEN <<>> ELSE <<cur>>
    ELSE IF CharAt(s, i) \in Whitespace
         THEN IF Len(cur) = 0
              THEN SplitFrom(s, i + 1, "")
              ELSE <<cur>> \o SplitFrom(s, i + 1, "")
         ELSE SplitFrom(s, i + 1, cur \o CharAt(s, i))

split(s) == SplitFrom(s, 1, "")

Range(seq) == {seq[i] : i \in DOMAIN seq}

(***************************************************************************)
(* Part II - ImpactDetector                                                *)
(***************************************************************************)

\* A plausible slip: review and approval confused in the medium entry
RISK_CRITERIA_medium_approval ==
    [low      |-> [max_affected_files |-> 2, has_overlaps |-> FALSE,
                   affects_core |-> FALSE, auto_proceed |-> TRUE],
     medium   |-> [max_affected_files |-> 5, has_overlaps |-> TRUE,
                   affects_core |-> FALSE, auto_proceed |-> FALSE,
                   requires_approval |-> TRUE],
     high     |-> [max_affected_files |-> 10, has_overlaps |-> TRUE,
                   affects_core |-> TRUE, auto_proceed |-> FALSE,
                   requires_approval |-> TRUE],
     critical |-> [affects_core |-> TRUE, breaking_changes |-> TRUE,
                   auto_proceed |-> FALSE, requires_approval |-> TRUE,
                   manual_review_required |-> TRUE]]

\* RISK_CRITERIA: a dictionary per level; a key absent from the source
\* dictionary is absent from the record
RISK_CRITERIA ==
    [low      |-> [max_affected_files |-> 2, has_overlaps |-> FALSE,
                   affects_core |-> FALSE, auto_proceed |-> TRUE],
     medium   |-> [max_affected_files |-> 5, has_overlaps |-> TRUE,
                   affects_core |-> FALSE, auto_proceed |-> FALSE,
                   requires_review |-> TRUE],
     high     |-> [max_affected_files |-> 10, has_overlaps |-> TRUE,
                   affects_core |-> TRUE, auto_proceed |-> FALSE,
                   requires_approval |-> TRUE],
     critical |-> [affects_core |-> TRUE, breaking_changes |-> TRUE,
                   auto_proceed |-> FALSE, requires_approval |-> TRUE,
                   manual_review_required |-> TRUE]]

\* dict.get(key, default)
DictGet(d, key, default) == IF key \in DOMAIN d THEN d[key] ELSE default

\* A plausible slip: the medium rule tested ahead of the high rule
calculate_risk_level_medium_first(data) ==
    LET affected_files_count == Len(data.affected_files)
        warnings_count == Len(data.warnings)
    IN  IF data.affects_core /\ warnings_count > 3 THEN "critical"
        ELSE IF data.has_overlaps \/ affected_files_count > 3 THEN "medium"
        ELSE IF data.affects_core \/ affected_files_count > 8 THEN "high"
        ELSE "low"

\* A plausible slip: the file-count comparison of the high rule reversed
calculate_risk_level_flipped(data) ==
    LET affected_files_count == Len(data.affected_files)
        warnings_count == Len(data.warnings)
    IN  IF data.affects_core /\ warnings_count > 3 THEN "critical"
        ELSE IF data.affects_core \/ affected_files_count < 8 THEN "high"
        ELSE IF data.has_overlaps \/ affected_files_count > 3 THEN "medium"
        ELSE "low"

\* ImpactDetector.calculate_risk_level: the early returns in source order
calculate_risk_level(data) ==
    LET affected_files_count == Len(data.affected_files)
        has_overlaps == data.has_overlaps
        affects_core == data.affects_core
        warnings_count == Len(data.warnings)
    IN  IF affects_core /\ warnings_count > 3 THEN "critical"
        ELSE IF affects_core \/ affected_files_count > 8 THEN "high"
        ELSE IF has_overlaps \/ affected_files_count > 3 THEN "medium"
        ELSE "low"

\* A plausible slip: keywords of 3 characters accepted (>= 3 for > 3)
_find_files_by_keywords_len3(request, struct) ==
    LET keywords == split(lower(request))
        Matches(file_info) ==
            LET file_path == lower(file_info.file_path)
            IN  \E k \in DOMAIN keywords :
                    Len(keywords[k]) >= 3 /\ StrIn(keywords[k], file_path)
        relevant == SelectSeq(struct.files, Matches)
    IN  [i \in DOMAIN relevant |-> relevant[i].file_path]

\* A plausible slip: keywords of 4 characters rejected (> 4 for > 3)
_find_files_by_keywords_len5(request, struct) ==
    LET keywords == split(lower(request))
        Matches(file_info) ==
            LET file_path == lower(file_info.file_path)
            IN  \E k \in DOMAIN keywords :
                    Len(keywords[k]) > 4 /\ StrIn(keywords[k], file_path)
        relevant == SelectSeq(struct.files, Matches)
    IN  [i \in DOMAIN relevant |-> relevant[i].file_path]

\* ImpactDetector._find_files_by_keywords: one entry per matching file (the
\* break leaves the keyword loop at the first match)
_find_files_by_keywords(request, struct) ==
    LET keywords == split(lower(request))
        Matches(file_info) ==
            LET file_path == lower(file_info.file_path)
            IN  \E k \in DOMAIN keywords :
                    Len(keywords[k]) > 3 /\ StrIn(keywords[k], file_path)
        relevant == SelectSeq(struct.files, Matches)
    IN  [i \in DOMAIN relevant |-> relevant[i].file_path]

\* A plausible slip: the edge type is not tested
_expand_affected_files_any_type(initial_files, graph) ==
    Range(initial_files) \cup
    {graph.edges[i].target : i \in
        {j \in DOMAIN graph.edges :
            \E a \in DOMAIN initial_files :
                StrIn(initial_files[a], graph.edges[j].source)}}

\* ImpactDetector._expand_affected_files: list(all_files) has no defined
\* order, so the result is the set
_expand_affected_files(initial_files, graph) ==
    Range(initial_files) \cup
    {graph.edges[i].target : i \in
        {j \in DOMAIN graph.edges :
            /\ \E a \in DOMAIN initial_files :
                   StrIn(initial_files[a], graph.edges[j].source)
            /\ graph.edges[j].type = "imports"}}

\* ImpactDetector._extract_features: class names, then function names
_extract_features(struct) ==
    LET Keep(decl) == Len(decl.name) > 0 /\ ~startswith(decl.name, "_")
        cls == SelectSeq(struct.classes, Keep)
        fns == SelectSeq(struct.functions, Keep)
    IN  [i \in DOMAIN cls |-> cls[i].name] \o [i \in DOMAIN fns |-> fns[i].name]

ConflictPrefix == "Change may conflict with existing feature: "

\* A plausible slip: words of 4 characters accepted (> 3 for > 4)
detect_feature_overlap_len4(request, existing_features) ==
    LET change_lower == lower(request)
        Mentions(feature) ==
            LET words == split(lower(feature))
            IN  \E k \in DOMAIN words :
                    Len(words[k]) > 3 /\ StrIn(words[k], change_lower)
        hit == SelectSeq(existing_features, Mentions)
    IN  [i \in DOMAIN hit |->
            [feature_name |-> hit[i],
             overlap_type |-> "potential_conflict",
             conflict_description |-> ConflictPrefix \o hit[i]]]

\* ImpactDetector.detect_feature_overlap
detect_feature_overlap(request, existing_features) ==
    LET change_lower == lower(request)
        Mentions(feature) ==
            LET words == split(lower(feature))
            IN  \E k \in DOMAIN words :
                    Len(words[k]) > 4 /\ StrIn(words[k], change_lower)
        hit == SelectSeq(existing_features, Mentions)
    IN  [i \in DOMAIN hit |->
            [feature_name |-> hit[i],
             overlap_type |-> "potential_conflict",
             conflict_description |-> ConflictPrefix \o hit[i]]]

core_keywords == <<"app.py", "config", "auth", "database", "model", "service">>

\* ImpactDetector._affects_core_modules
_affects_core_modules(files) ==
    \E f \in files : \E k \in DOMAIN core_keywords :
        StrIn(core_keywords[k], lower(f))

\* ClaudeService.analyze_impact, from the parsed JSON object to the returned
\* dictionary
analyze_impact(json) ==
    [affected_files    |-> json.affected_files,
     affected_features |-> json.affected_features,
     warnings          |-> json.risks \o json.overlaps,
     recommendation    |-> json.recommendation]

\* any ordering of a finite set as a list: list(set) in Python
RECURSIVE SetToSeq(_)
SetToSeq(S) ==
    IF S = {} THEN <<>>
    ELSE LET x == CHOOSE y \in S : TRUE IN <<x>> \o SetToSeq(S \ {x})

\* ImpactDetector.analyze_change_impact, from the external analysis on: the
\* seed list, whether the keyword fallback ran, and the returned dictionary
SeedSelection(request, struct, analysis) ==
    IF Len(analysis.affected_files) = 0
    THEN [files |-> _find_files_by_keywords(request, struct), fallback |-> TRUE]
    ELSE [files |-> analysis.affected_files, fallback |-> FALSE]

\* A plausible slip: the overlap descriptions left out of the warnings
BuildReport_external_only(request, struct, graph, analysis, affected_files) ==
    LET all_affected_files == _expand_affected_files(affected_files, graph)
        existing_features == _extract_features(struct)
        overlaps == detect_feature_overlap(request, existing_features)
        risk_level ==
            calculate_risk_level(
                [affected_files |-> SetToSeq(all_affected_files),
                 has_overlaps   |-> Len(overlaps) > 0,
                 affects_core   |-> _affects_core_modules(all_affected_files),
                 warnings       |-> analysis.warnings])
        criteria == DictGet(RISK_CRITERIA, risk_level, RISK_CRITERIA.medium)
    IN  [risk_level        |-> risk_level,
         affected_files    |-> all_affected_files,
         affected_features |-> analysis.affected_features,
         warnings          |-> analysis.warnings,
         recommendation    |-> analysis.recommendation,
         should_proceed    |-> DictGet(criteria, "auto_proceed", FALSE),
         requires_approval |-> DictGet(criteria, "requires_approval", FALSE),
         overlaps          |-> overlaps]

BuildReport(request, struct, graph, analysis, affected_files) ==
    LET all_affected_files == _expand_affected_files(affected_files, graph)
        existing_features == _extract_features(struct)
        overlaps == detect_feature_overlap(request, existing_features)
        risk_level ==
            calculate_risk_level(
                [affected_files |-> SetToSeq(all_affected_files),
                 has_overlaps   |-> Len(overlaps) > 0,
                 affects_core   |-> _affects_core_modules(all_affected_files),
                 warnings       |-> analysis.warnings])
        criteria == DictGet(RISK_CRITERIA, risk_level, RISK_CRITERIA.medium)
    IN  [risk_level        |-> risk_level,
         affected_files    |-> all_affected_files,
         affected_features |-> analysis.affected_features,
         warnings          |-> analysis.warnings \o
                               [i \in DOMAIN overlaps |->
                                   overlaps[i].conflict_description],
         recommendation    |-> analysis.recommendation,
         should_proceed    |-> DictGet(criteria, "auto_proceed", FALSE),
         requires_approval |-> DictGet(criteria, "requires_approval", FALSE),
         overlaps          |-> overlaps]

\* The risk analyze_impact reports when the answer is not JSON
UnparsedRisk == "Unable to parse detailed analysis"

\* json.loads("{}"): every impact_data.get(...) falls to its default
DefaultObject ==
    [affected_files |-> <<>>, affected_features |-> <<>>, risks |-> <<>>,
     overlaps |-> <<>>, recommendation |-> ""]

\* Iterating a Python str yields its characters
Chars(s) == [i \in 1..Len(s) |-> SubSeq(s, i, i)]

\* ClaudeService.analyze_impact as ImpactDetector sees it: an exception
\* (error names its class) or the returned dictionary.  resp says what the
\* call met:
\*   "prompt_error"  str.format of the prompt raised KeyError (the template
\*                   names pdf_documents, the call at lines 111-115 does not
\*                   pass it);
\*   "api_error"     messages.create raised; _call_claude_api re-raises it
\*                   as ValueError;
\*   "no_content"    response.content is empty: the answer is "{}";
\*   "not_json"      json.loads raised JSONDecodeError on resp.text;
\*   "not_object"    json.loads gave a list, a string, a number or null:
\*                   it has no .get;
\*   "object"        json.loads gave a dictionary, resp.json, read as
\*                   resp.shape says:
\*                     "ok"          every field is a list of strings;
\*                     "risks_str"   'risks' is a string: str + list raises;
\*                     "risks_null"  'risks' is null: None + list raises;
\*                     "files_str"   'affected_files' is the first path as a
\*                                   string, not a list of paths;
\*                     "files_int"   'affected_files' is the number of paths.
\* files_type is the Python type of the returned 'affected_files'; a string
\* is kept as the list of its characters, a number as its decimal text.
ClaudeService_analyze_impact(resp) ==
    LET Raised(e) == [error |-> e, analysis |-> analyze_impact(DefaultObject),
                      files_type |-> "list"]
        Returned(json, t) == [error |-> "", analysis |-> analyze_impact(json),
                              files_type |-> t]
    IN  CASE resp.kind = "prompt_error" -> Raised("KeyError")
          [] resp.kind = "api_error"    -> Raised("ValueError")
          [] resp.kind = "no_content"   -> Returned(DefaultObject, "list")
          [] resp.kind = "not_json"     ->
                 Returned([affected_files    |-> <<>>,
                           affected_features |-> <<>>,
                           overlaps          |-> <<>>,
                           risks             |-> <<UnparsedRisk>>,
                           recommendation    |-> resp.text], "list")
          [] resp.kind = "not_object"   -> Raised("AttributeError")
          [] resp.kind = "object" /\ resp.shape = "ok" ->
                 Returned(resp.json, "list")
          [] resp.kind = "object" /\ resp.shape \in {"risks_str", "risks_null"} ->
                 Raised("TypeError")
          [] resp.kind = "object" /\ resp.shape = "files_str" ->
                 Returned([resp.json EXCEPT
                              !.affected_files = Chars(resp.json.affected_files[1])],
                          "str")
          [] resp.kind = "object" /\ resp.shape = "files_int" ->
                 Returned([resp.json EXCEPT
                              !.affected_files =
                                  <<ToString(Len(resp.json.affected_files))>>],
                          "int")

(***************************************************************************)
(* Inputs                                                                  *)
(***************************************************************************)
MaxAffected == 10   \* longest affected_files list given to calculate_risk_level
MaxWarnings == 5    \* longest warnings list given to calculate_risk_level
MaxRisks == 4       \* most risks in one external analysis

\* The files a repository may hold, in index order, with their declarations
FileUniverse ==
    << [file_path |-> "a.py",
        classes   |-> << [name |-> "ClaimApprovalService"] >>,
        functions |-> << >>],
       [file_path |-> "data.py",
        classes   |-> << [name |-> "Data"] >>,
        functions |-> << [name |-> "_login"] >>],
       [file_path |-> "api.py",
        classes   |-> << [name |-> "_Token"] >>,
        functions |-> << [name |-> "login"], [name |-> "token"] >>],
       [file_path |-> "auth.py",
        classes   |-> << [name |-> "Auth"] >>,
        functions |-> << [name |-> "token"] >>] >>

RECURSIVE Flatten(_, _)
Flatten(files, field) ==
    IF files = <<>> THEN <<>>
    ELSE LET f == Head(files)
         IN  [i \in DOMAIN f[field] |->
                 [name |-> f[field][i].name, file_path |-> f.file_path]]
             \o Flatten(Tail(files), field)

\* The index _parse_repository leaves for the first k files of the universe
IndexOf(k) ==
    LET files == SubSeq(FileUniverse, 1, k)
    IN  [files        |-> files,
         classes      |-> Flatten(files, "classes"),
         functions    |-> Flatten(files, "functions"),
         files_parsed |-> k]

\* The contains edges build_dependency_graph makes for an index
RECURSIVE ContainsEdges(_)
ContainsEdges(files) ==
    IF files = <<>> THEN <<>>
    ELSE LET f == Head(files)
             Edge(decl) == [source |-> f.file_path,
                            target |-> f.file_path \o "::" \o decl.name,
                            type   |-> "contains"]
         IN  [i \in DOMAIN f.classes |-> Edge(f.classes[i])]
             \o [i \in DOMAIN f.functions |-> Edge(f.functions[i])]
             \o ContainsEdges(Tail(files))

\* The imports edges a graph over the universe may hold
ImportCandidates ==
    << [source |-> "a.py",    target |-> "data.py", type |-> "imports"],
       [source |-> "data.py", target |-> "a.py",    type |-> "imports"],
       [source |-> "data.py", target |-> "api.py",  type |-> "imports"],
       [source |-> "api.py",  target |-> "auth.py", type |-> "imports"],
       [source |-> "auth.py", target |-> "data.py", type |-> "imports"] >>

\* The nodes build_dependency_graph makes for an index: per file its node,
\* then its class nodes, then its function nodes
RECURSIVE NodesOf(_)
NodesOf(files) ==
    IF files = <<>> THEN <<>>
    ELSE LET f == Head(files)
             Decl(decl, t) == [id   |-> f.file_path \o "::" \o decl.name,
                               type |-> t]
         IN  << [id |-> f.file_path, type |-> "file"] >>
             \o [i \in DOMAIN f.classes |-> Decl(f.classes[i], "class")]
             \o [i \in DOMAIN f.functions |-> Decl(f.functions[i], "function")]
             \o NodesOf(Tail(files))

\* The graphs of an index: its nodes, its contains edges and any of the
\* imports edges between its files
GraphsOf(struct) ==
    LET paths == {struct.files[i].file_path : i \in DOMAIN struct.files}
        Inside(e) == e.source \in paths /\ e.target \in paths
        possible == SelectSeq(ImportCandidates, Inside)
    IN  { [nodes |-> NodesOf(struct.files),
           edges |-> ContainsEdges(struct.files) \o
                     SelectSeq(possible, LAMBDA e : e \in chosen)]
          : chosen \in SUBSET Range(possible) }

\* repo_data without a stored graph: .get('dependency_graph', {}) and then
\* .get('edges', []) see no node and no edge
EmptyGraph == [nodes |-> <<>>, edges |-> <<>>]

\* A path that is in no index and is a node of no graph
AbsentPath == "ghost.py"

\* Graphs that do not match the index they are stored with: the nodes and
\* contains edges of the index and one imports edge from or to a path that
\* is neither a node of the graph nor a file of the index.  The handler
\* takes the graph from repo_data as it is.
MismatchedGraphsOf(struct) ==
    { [nodes |-> NodesOf(struct.files),
       edges |-> ContainsEdges(struct.files) \o << e >>]
      : e \in { [source |-> struct.files[i].file_path, target |-> AbsentPath,
                 type |-> "imports"] : i \in DOMAIN struct.files }
           \cup
           { [source |-> AbsentPath, target |-> struct.files[i].file_path,
              type |-> "imports"] : i \in DOMAIN struct.files } }

Descriptions ==
    { "fix ClaimApproval logic",
      "fix Data api",
      "update auth _login",
      "data data.py a.py Token" }

RiskText(i) == "risk " \o ToString(i)

\* The JSON objects the external analysis may answer with
Opinions ==
    { [affected_files    |-> af,
       affected_features |-> <<>>,
       risks             |-> [i \in 1..r |-> RiskText(i)],
       overlaps          |-> ov,
       recommendation    |-> "review"]
      : af \in { <<>>, <<"a.py">>, <<"data.py">>, <<"api.py">>, <<"auth.py">>,
                 <<"api.py", "data.py">> },
        r \in 0..MaxRisks,
        ov \in { <<>>, <<"duplicates helper">> } }

\* The answer every response other than a well-formed object is built from
BaseOpinion ==
    [affected_files    |-> <<"a.py">>,
     affected_features |-> <<>>,
     risks             |-> <<RiskText(1)>>,
     overlaps          |-> <<>>,
     recommendation    |-> "review"]

\* What the external analysis may meet
Responses ==
    { [kind |-> "object", shape |-> "ok", json |-> o, text |-> ""]
      : o \in Opinions }
    \cup
    { [kind |-> "object", shape |-> sh, json |-> BaseOpinion, text |-> ""]
      : sh \in {"risks_str", "risks_null", "files_str", "files_int"} }
    \cup
    { [kind |-> k, shape |-> "", json |-> DefaultObject, text |-> t]
      : k \in {"prompt_error", "api_error", "no_content", "not_object"},
        t \in {""} }
    \cup
    { [kind |-> "not_json", shape |-> "", json |-> DefaultObject,
       text |-> "The change looks risky."] }

RiskFile(i) == "f" \o ToString(i) \o ".py"

ImpactData(n, has_overlaps, affects_core, w) ==
    [affected_files |-> [i \in 1..n |-> RiskFile(i)],
     has_overlaps   |-> has_overlaps,
     affects_core   |-> affects_core,
     warnings       |-> [i \in 1..w |-> RiskText(i)]]

NoData == ImpactData(0, FALSE, FALSE, 0)

EmptyReport ==
    [risk_level |-> "", affected_files |-> {}, affected_features |-> <<>>,
     warnings |-> <<>>, recommendation |-> "", should_proceed |-> FALSE,
     requires_approval |-> FALSE, overlaps |-> <<>>]

\* ImpactDetector.analyze_change_impact: what the caller gets (error "" and
\* the report, or the class of the exception) and the locals on the way.
\* No statement of the handler is inside a try: an exception of the external
\* analysis propagates, and so does the TypeError of set(initial_files) in
\* _expand_affected_files when 'affected_files' is a non-zero number.
analyze_change_impact(request, struct, graph, resp) ==
    LET call == ClaudeService_analyze_impact(resp)
        seed == SeedSelection(request, struct, call.analysis)
        Out(e, files, fb, rep) ==
            [error |-> e, claude_analysis |-> call.analysis,
             seed_files |-> files, used_fallback |-> fb, report |-> rep]
    IN  IF call.error # ""
        THEN Out(call.error, <<>>, FALSE, EmptyReport)
        ELSE IF ~seed.fallback /\ call.files_type = "int"
        THEN Out("TypeError", seed.files, FALSE, EmptyReport)
        ELSE Out("", seed.files, seed.fallback,
                 BuildReport(request, struct, graph, call.analysis, seed.files))

(***************************************************************************)
(* Part III - RepositoryAnalyzer (services/repository_analyzer.py) and the *)
(*            parser (utils/ast_parser.py)                                 *)
(***************************************************************************)
\* str.replace('.', '/')
RECURSIVE replace_dots(_)
replace_dots(s) ==
    IF Len(s) = 0 THEN ""
    ELSE (IF CharAt(s, 1) = "." THEN "/" ELSE CharAt(s, 1))
         \o replace_dots(SubSeq(s, 2, Len(s)))

\* str.split('.')[-1]: what follows the last dot, the whole string without dot
RECURSIVE last_component(_)
last_component(s) ==
    IF \E i \in 1..Len(s) : CharAt(s, i) = "."
    THEN last_component(SubSeq(s, 2, Len(s)))
    ELSE s

\* dict.update on node or edge attributes: new keys win, old ones stay
Merged(old, new) ==
    [k \in DOMAIN old \cup DOMAIN new |->
        IF k \in DOMAIN new THEN new[k] ELSE old[k]]

\* nx.DiGraph(): nodes by id in insertion order, at most one edge per
\* ordered pair of nodes
EmptyDiGraph == [nodes |-> <<>>, edges |-> <<>>]

\* DiGraph.add_node: a node already present keeps its place and has its
\* attributes updated
add_node(G, attrs) ==
    IF \E i \in DOMAIN G.nodes : G.nodes[i].id = attrs.id
    THEN [G EXCEPT !.nodes =
             [i \in DOMAIN G.nodes |->
                 IF G.nodes[i].id = attrs.id
                 THEN Merged(G.nodes[i], attrs) ELSE G.nodes[i]]]
    ELSE [G EXCEPT !.nodes = Append(G.nodes, attrs)]

\* A plausible slip: a multigraph, every add_edge call makes a new edge
add_edge_multi(G, u, v, t) ==
    [G EXCEPT !.edges = Append(G.edges, [source |-> u, target |-> v, type |-> t])]

\* DiGraph.add_edge: missing end nodes are added without attributes; an edge
\* already present between the two nodes has its attributes updated
add_edge(G, u, v, t) ==
    LET G1 == IF \E i \in DOMAIN G.nodes : G.nodes[i].id = u
              THEN G ELSE add_node(G, [id |-> u])
        G2 == IF \E i \in DOMAIN G1.nodes : G1.nodes[i].id = v
              THEN G1 ELSE add_node(G1, [id |-> v])
        edge == [source |-> u, target |-> v, type |-> t]
    IN  IF \E i \in DOMAIN G2.edges :
               G2.edges[i].source = u /\ G2.edges[i].target = v
        THEN [G2 EXCEPT !.edges =
                 [i \in DOMAIN G2.edges |->
                     IF G2.edges[i].source = u /\ G2.edges[i].target = v
                     THEN Merged(G2.edges[i], edge) ELSE G2.edges[i]]]
        ELSE [G2 EXCEPT !.edges = Append(G2.edges, edge)]

\* build_dependency_graph, lines 184-193: the nodes and contains edges of the
\* classes (t = "class") or functions (t = "function") of one file
RECURSIVE AddDeclarations(_, _, _, _)
AddDeclarations(G, file_path, decls, t) ==
    IF decls = <<>> THEN G
    ELSE LET id == file_path \o "::" \o Head(decls).name
             G1 == add_node(G, [id |-> id, type |-> t, file |-> file_path])
             G2 == add_edge(G1, file_path, id, "contains")
         IN  AddDeclarations(G2, file_path, Tail(decls), t)

\* build_dependency_graph, lines 179-193
RECURSIVE AddFiles(_, _)
AddFiles(G, files) ==
    IF files = <<>> THEN G
    ELSE LET f == Head(files)
             G1 == add_node(G, [id |-> f.file_path, type |-> "file"])
             G2 == AddDeclarations(G1, f.file_path, f.classes, "class")
             G3 == AddDeclarations(G2, f.file_path, f.functions, "function")
         IN  AddFiles(G3, Tail(files))

\* build_dependency_graph, lines 202-206: the files a module name matches
target_files(module, files) ==
    LET Matches(f) == \/ StrIn(replace_dots(module), f.file_path)
                      \/ StrIn(last_component(module), f.file_path)
        hit == SelectSeq(files, Matches)
    IN  [i \in DOMAIN hit |-> hit[i].file_path]

\* A plausible slip: the edge drawn from the imported file to the importer
RECURSIVE AddImportEdges_reversed(_, _, _)
AddImportEdges_reversed(G, file_path, targets) ==
    IF targets = <<>> THEN G
    ELSE AddImportEdges_reversed(
             IF Head(targets) # file_path
             THEN add_edge(G, Head(targets), file_path, "imports") ELSE G,
             file_path, Tail(targets))

\* build_dependency_graph, lines 207-209
RECURSIVE AddImportEdges(_, _, _)
AddImportEdges(G, file_path, targets) ==
    IF targets = <<>> THEN G
    ELSE AddImportEdges(
             IF Head(targets) # file_path
             THEN add_edge(G, file_path, Head(targets), "imports") ELSE G,
             file_path, Tail(targets))

\* build_dependency_graph, lines 198-209: the imports of one file
RECURSIVE AddImports(_, _, _, _)
AddImports(G, file_path, imports, files) ==
    IF imports = <<>> THEN G
    ELSE LET imp == Head(imports)
             G1 == IF imp.type = "from_import"
                   THEN AddImportEdges(G, file_path,
                                       target_files(imp.module, files))
                   ELSE G
         IN  AddImports(G1, file_path, Tail(imports), files)

\* build_dependency_graph, lines 196-209
RECURSIVE AddAllImports(_, _, _)
AddAllImports(G, rest, files) ==
    IF rest = <<>> THEN G
    ELSE AddAllImports(
             AddImports(G, Head(rest).file_path, Head(rest).imports, files),
             Tail(rest), files)

\* G.edges(data=True): the edges by source node in node order, the edges of
\* one source in the order they were added
RECURSIVE EdgesView(_, _)
EdgesView(nodes, edges) ==
    IF nodes = <<>> THEN <<>>
    ELSE SelectSeq(edges, LAMBDA e : e.source = Head(nodes).id)
         \o EdgesView(Tail(nodes), edges)

\* Simple paths that start at their first node in node order and arise from
\* the paths of frontier by following edges
RECURSIVE GrowPaths(_, _, _)
GrowPaths(frontier, G, found) ==
    IF frontier = {} THEN found
    ELSE LET Pos(id) == CHOOSE i \in DOMAIN G.nodes : G.nodes[i].id = id
             Next1(p) ==
                 {Append(p, e.target) : e \in
                     {x \in Range(G.edges) :
                         /\ x.source = p[Len(p)]
                         /\ x.target \notin Range(p)
                         /\ Pos(x.target) > Pos(p[1])}}
         IN  GrowPaths(UNION {Next1(p) : p \in frontier}, G,
                       found \cup frontier)

\* nx.simple_cycles(G): every elementary cycle of G once, as the list of its
\* nodes (here from its first node in node order; networkx fixes no order)
simple_cycles(G) ==
    {p \in GrowPaths({<<G.nodes[i].id>> : i \in DOMAIN G.nodes}, G, {}) :
        \E e \in Range(G.edges) : e.source = p[Len(p)] /\ e.target = p[1]}

\* A plausible slip: a declaration also points back to its file
build_dependency_graph_back_edges(struct) ==
    LET G0 == AddAllImports(AddFiles(EmptyDiGraph, struct.files),
                            struct.files, struct.files)
        Back(e) == [source |-> e.target, target |-> e.source, type |-> e.type]
        G == [G0 EXCEPT !.edges =
                 G0.edges \o [i \in DOMAIN G0.edges |-> Back(G0.edges[i])]]
    IN  [nodes |-> G.nodes,
         edges |-> EdgesView(G.nodes, G.edges),
         circular_dependencies |-> simple_cycles(G)]

\* RepositoryAnalyzer.build_dependency_graph
build_dependency_graph(struct) ==
    LET G == AddAllImports(AddFiles(EmptyDiGraph, struct.files),
                           struct.files, struct.files)
    IN  [nodes |-> G.nodes,
         edges |-> EdgesView(G.nodes, G.edges),
         circular_dependencies |-> simple_cycles(G)]

FromImport(m) == [type |-> "from_import", module |-> m]

PlainImport(m) == [type |-> "import", module |-> m]

\* The file records an index given to build_dependency_graph may hold, by
\* position: a.py, then b.py, then pkg/c.py.  Claim is declared as a class
\* and as a function, and in several files.
GraphFileChoices ==
    << { [file_path |-> "a.py", classes |-> c, functions |-> f, imports |-> i]
         : c \in { <<>>, << [name |-> "Claim"] >> },
           f \in { <<>>, << [name |-> "Claim"] >>, << [name |-> "run"] >> },
           i \in { <<>>, << FromImport("b") >>, << PlainImport("b") >>,
                   << FromImport("pkg.c") >>,
                   << FromImport("b"), FromImport("pkg.c") >> } },
       { [file_path |-> "b.py", classes |-> c,
          functions |-> << [name |-> "run"] >>, imports |-> i]
         : c \in { <<>>, << [name |-> "Claim"] >> },
           i \in { <<>>, << FromImport("a") >>, << FromImport("") >> } },
       { [file_path |-> "pkg/c.py", classes |-> << [name |-> "Claim"] >>,
          functions |-> <<>>, imports |-> i]
         : i \in { <<>>, << FromImport("a") >>, << FromImport("b") >> } } >>

\* The indexes given to build_dependency_graph: the first k files
GraphIndexes ==
    { [files |-> fs] :
        fs \in UNION { {s \in [1..k -> UNION Range(GraphFileChoices)] :
                           \A i \in 1..k : s[i] \in GraphFileChoices[i]}
                       : k \in 0..Len(GraphFileChoices) } }

\* A source file is its path below the repository root, as segments, and
\* its content: kind says what reading and ast.parse make of it,
\*   "valid"         the text parses; body is the module body in order;
\*   "syntax_error"  ast.parse raises SyntaxError;
\*   "structural"    ast.parse raises another exception (ValueError for a
\*                   null byte, RecursionError for deep nesting);
\*   "undecodable"   the bytes are not UTF-8: f.read() raises;
\*   "unreadable"    open() raises OSError (no permission, a directory
\*                   named like a source file, a file that has vanished).
\* A statement is a "def" or a "class" with its own body of statements, an
\* "import" or a "from" import of module name, or an "expr" (a docstring or
\* another expression statement).
Stmt(kind, name, body) == [kind |-> kind, name |-> name, body |-> body]

NothingCollected == [classes |-> <<>>, functions |-> <<>>, imports |-> <<>>]

\* ASTParser.visit over the statements of a body, in order: what the
\* visitor has appended to self.classes, self.functions and self.imports.
\* visit_ClassDef records the class with the defs of its body as methods,
\* sets current_class back to None and only then calls generic_visit, so
\* visit_FunctionDef finds current_class None for every def it meets, the
\* methods included; generic_visit also descends into nested classes and
\* nested defs.
RECURSIVE ASTParser_visit(_)
ASTParser_visit(body) ==
    IF body = <<>> THEN NothingCollected
    ELSE LET st == Head(body)
             Names(ns) == [i \in DOMAIN ns |-> [name |-> ns[i].name]]
             own ==
                 CASE st.kind = "class" ->
                         [NothingCollected EXCEPT
                             !.classes =
                                 << [name |-> st.name,
                                     methods |-> Names(SelectSeq(st.body,
                                         LAMBDA x : x.kind = "def"))] >>]
                   [] st.kind = "def" ->
                         [NothingCollected EXCEPT
                             !.functions = << [name |-> st.name] >>]
                   [] st.kind = "import" ->
                         [NothingCollected EXCEPT
                             !.imports = << PlainImport(st.name) >>]
                   [] st.kind = "from" ->
                         [NothingCollected EXCEPT
                             !.imports = << FromImport(st.name) >>]
                   [] st.kind = "expr" -> NothingCollected
             inner == ASTParser_visit(st.body)
             rest == ASTParser_visit(Tail(body))
         IN  [classes   |-> own.classes \o inner.classes \o rest.classes,
              functions |-> own.functions \o inner.functions \o rest.functions,
              imports   |-> own.imports \o inner.imports \o rest.imports]

\* ASTParser.parse: visits the tree, looks for a module docstring and ends
\* without a return statement, so the call gives None; what was collected
\* stays in the parser object, which parse_python_file drops.  The docstring
\* test reads ast.Str when the first statement is an expression; an
\* interpreter without ast.Str (has_ast_Str false) raises AttributeError
\* there.
ASTParser_parse(body, has_ast_Str) ==
    IF body # <<>> /\ Head(body).kind = "expr" /\ ~has_ast_Str
    THEN [raised |-> "AttributeError", value |-> "None",
          parser |-> ASTParser_visit(body)]
    ELSE [raised |-> "", value |-> "None", parser |-> ASTParser_visit(body)]

\* What parse_python_file gives its caller: outcome "none" (the value None),
\* "dict" (a dictionary, with the key 'error' when error is not "") or
\* "raised" (an exception of class error)
ParseNone ==
    [outcome |-> "none", error |-> "", classes |-> <<>>, functions |-> <<>>,
     imports |-> <<>>]

ParseError(message) ==
    [outcome |-> "dict", error |-> message, classes |-> <<>>,
     functions |-> <<>>, imports |-> <<>>]

ParseRaised(class) ==
    [outcome |-> "raised", error |-> class, classes |-> <<>>,
     functions |-> <<>>, imports |-> <<>>]

\* A plausible slip: only SyntaxError is caught
parse_python_file_syntax_only(file, has_ast_Str) ==
    CASE file.kind = "unreadable"   -> ParseRaised("OSError")
      [] file.kind = "undecodable"  -> ParseRaised("UnicodeDecodeError")
      [] file.kind = "syntax_error" -> ParseError("Syntax error")
      [] file.kind = "structural"   -> ParseRaised("ValueError")
      [] file.kind = "valid" ->
             IF ASTParser_parse(file.body, has_ast_Str).raised # ""
             THEN ParseRaised("AttributeError")
             ELSE ParseNone

\* parse_python_file
parse_python_file(file, has_ast_Str) ==
    CASE file.kind = "unreadable"   -> ParseError("Parse error")
      [] file.kind = "undecodable"  -> ParseError("Parse error")
      [] file.kind = "syntax_error" -> ParseError("Syntax error")
      [] file.kind = "structural"   -> ParseError("Parse error")
      [] file.kind = "valid" ->
             IF ASTParser_parse(file.body, has_ast_Str).raised # ""
             THEN ParseError("Parse error")
             ELSE ParseNone

ignore_dirs == {".git", "__pycache__", "venv", "env", "node_modules", ".venv"}

\* str(py_file.relative_to(repo_path))
RECURSIVE JoinPath(_)
JoinPath(parts) ==
    IF Len(parts) = 1 THEN parts[1]
    ELSE parts[1] \o "/" \o JoinPath(Tail(parts))

\* [{**x, 'file_path': relative_path} for x in xs]
Tagged(xs, relative_path) ==
    [i \in DOMAIN xs |-> Merged(xs[i], [file_path |-> relative_path])]

EmptyStructure ==
    [files |-> <<>>, classes |-> <<>>, functions |-> <<>>, imports |-> <<>>,
     files_parsed |-> 0]

\* line 127: any(ignore_dir in py_file.parts for ignore_dir in ignore_dirs);
\* rglob yields repo_path joined with the path below it
is_ignored(root_parts, py_file) ==
    LET parts == root_parts \o py_file.parts
    IN  \E i \in DOMAIN parts : parts[i] \in ignore_dirs

\* the files the loop gives to parse_python_file (line 132), in order
files_given_to_parser(python_files, root_parts) ==
    SelectSeq(python_files, LAMBDA py_file : ~is_ignored(root_parts, py_file))

\* _parse_repository, lines 125-160: the loop over python_files
RECURSIVE IndexFiles(_, _, _, _)
IndexFiles(struct, python_files, root_parts, has_ast_Str) ==
    IF python_files = <<>> THEN struct
    ELSE LET py_file == Head(python_files)
             relative_path == JoinPath(py_file.parts)
             parsed == parse_python_file(py_file, has_ast_Str)
             file_info == [file_path |-> relative_path,
                           classes   |-> parsed.classes,
                           functions |-> parsed.functions,
                           imports   |-> parsed.imports]
             struct1 ==
                 IF is_ignored(root_parts, py_file)
                 THEN struct             \* an ignored directory
                 ELSE IF parsed.outcome # "dict"
                 THEN struct             \* 'error' not in None raises
                                         \* TypeError: warned and skipped
                 ELSE IF parsed.error # ""
                 THEN struct             \* the parser gave an error value
                 ELSE [files |-> Append(struct.files, file_info),
                       classes |-> struct.classes
                                   \o Tagged(parsed.classes, relative_path),
                       functions |-> struct.functions
                                     \o Tagged(parsed.functions, relative_path),
                       imports |-> struct.imports
                                   \o Tagged(parsed.imports, relative_path),
                       files_parsed |-> struct.files_parsed + 1]
         IN  IndexFiles(struct1, Tail(python_files), root_parts, has_ast_Str)

\* RepositoryAnalyzer._parse_repository: error is the class of an exception
\* that reached the caller ("" when the structure was returned).
\* Path.rglob yields nothing for a root that does not exist or is a file,
\* and the method tests neither.
_parse_repository(tree, has_ast_Str) ==
    LET python_files == IF tree.root_kind = "dir" THEN tree.files ELSE <<>>
    IN  [error |-> "",
         structure |-> IndexFiles(EmptyStructure, python_files,
                                  tree.root_parts, has_ast_Str)]

\* The files a working tree may hold, in the order rglob yields them
TreeFiles ==
    << [parts |-> <<"app.py">>, kind |-> "valid",
        body |-> << Stmt("from", "pkg.util", <<>>),
                    Stmt("class", "Service", << Stmt("def", "run", <<>>) >>),
                    Stmt("def", "main", <<>>) >>],
       [parts |-> <<"pkg", "util.py">>, kind |-> "valid",
        body |-> << Stmt("expr", "", <<>>),
                    Stmt("import", "os", <<>>),
                    Stmt("def", "helper", <<>>) >>],
       [parts |-> <<"venv", "lib.py">>, kind |-> "valid",
        body |-> << Stmt("def", "vendored", <<>>) >>],
       [parts |-> <<"empty.py">>, kind |-> "valid", body |-> <<>>],
       [parts |-> <<"bad.py">>, kind |-> "syntax_error", body |-> <<>>],
       [parts |-> <<"nul.py">>, kind |-> "structural", body |-> <<>>],
       [parts |-> <<"latin.py">>, kind |-> "undecodable", body |-> <<>>],
       [parts |-> <<"locked.py">>, kind |-> "unreadable", body |-> <<>>] >>

\* The files given to parse_python_file: those of the tree, and files with
\* methods named like module-level functions, nested classes and nested defs
ParserFiles ==
    Range(TreeFiles) \cup
    { [parts |-> <<"models.py">>, kind |-> "valid",
       body |-> << Stmt("class", "Claim",
                        << Stmt("expr", "", <<>>),
                           Stmt("def", "approve", <<>>),
                           Stmt("class", "Meta", <<>>) >>),
                   Stmt("def", "approve",
                        << Stmt("def", "inner", <<>>) >>) >>],
      [parts |-> <<"plain.py">>, kind |-> "valid",
       body |-> << Stmt("import", "os", <<>>),
                   Stmt("def", "load", <<>>),
                   Stmt("class", "Empty", <<>>) >>] }

\* Where a repository is cloned to
RootLocations == { <<"/", "srv", "repos", "1">>, <<"/", "srv", "env", "repos", "1">> }

\* The working trees given to _parse_repository: a directory holding some
\* of the files, or a root that does not exist or is a file
Trees ==
    { [root_kind |-> "dir", root_parts |-> r,
       files |-> SelectSeq(TreeFiles, LAMBDA f : f \in chosen)]
      : r \in RootLocations, chosen \in SUBSET Range(TreeFiles) }
    \cup
    { [root_kind |-> k, root_parts |-> r, files |-> <<>>]
      : k \in {"missing", "file"}, r \in RootLocations }

(***************************************************************************)
(* get_relevant_files (services/repository_analyzer.py)                    *)
(*                                                                         *)
(* A docstring is <<>> for None and <<s>> for the string s.  Scores are    *)
(* counted in half points: 2.0, 1.5, 1.0 and 0.5 are 4, 3, 2 and 1.        *)
(***************************************************************************)
\* Path(file_path).name: what follows the last "/"
RECURSIVE PathName(_)
PathName(p) ==
    IF \E i \in 1..Len(p) : CharAt(p, i) = "/"
    THEN PathName(SubSeq(p, 2, Len(p)))
    ELSE p

\* for term in query_terms: if term in s: one hit
TermHits(query_terms, s) ==
    Cardinality({i \in DOMAIN query_terms : StrIn(query_terms[i], s)})

\* for cls in ...: name = cls['name'].lower(); for term in query_terms: ...
RECURSIVE NameHits(_, _)
NameHits(query_terms, decls) ==
    IF decls = <<>> THEN 0
    ELSE TermHits(query_terms, lower(Head(decls).name))
         + NameHits(query_terms, Tail(decls))

\* the score one pass of the loop gives a file whose docstring is a string
file_score(file_info, query_terms) ==
    4 * TermHits(query_terms, lower(PathName(file_info.file_path)))
    + 3 * NameHits(query_terms, file_info.classes)
    + 2 * NameHits(query_terms, file_info.functions)
    + TermHits(query_terms, lower(file_info.docstring[1]))

\* scored_files after the loop: the files with score > 0, in index order
RECURSIVE score_files(_, _)
score_files(files, query_terms) ==
    IF files = <<>> THEN <<>>
    ELSE LET score == file_score(Head(files), query_terms)
         IN (IF score > 0
             THEN << [file_path |-> Head(files).file_path,
                      relevance_score |-> score] >>
             ELSE <<>>)
            \o score_files(Tail(files), query_terms)

\* the same with equal scores in reverse order
RECURSIVE sort_by_relevance_unstable(_)
sort_by_relevance_unstable(scored) ==
    IF scored = <<>> THEN <<>>
    ELSE LET x == scored[Len(scored)]
             done == sort_by_relevance_unstable(SubSeq(scored, 1, Len(scored) - 1))
             k == Cardinality({i \in DOMAIN done :
                                  done[i].relevance_score > x.relevance_score})
         IN SubSeq(done, 1, k) \o <<x>> \o SubSeq(done, k + 1, Len(done))

\* list.sort(key=relevance_score, reverse=True): descending and stable
RECURSIVE sort_by_relevance(_)
sort_by_relevance(scored) ==
    IF scored = <<>> THEN <<>>
    ELSE LET x == scored[Len(scored)]
             done == sort_by_relevance(SubSeq(scored, 1, Len(scored) - 1))
             k == Cardinality({i \in DOMAIN done :
                                  done[i].relevance_score >= x.relevance_score})
         IN SubSeq(done, 1, k) \o <<x>> \o SubSeq(done, k + 1, Len(done))

\* xs[:n] for n >= 0
Slice(xs, n) == SubSeq(xs, 1, IF n < Len(xs) THEN n ELSE Len(xs))

\* get_relevant_files(query, repo_id, top_k), repo being the record the
\* store has for repo_id: kind "missing" (no record), "unindexed" (no
\* structure_json) or "indexed".  None.lower() raises AttributeError.  The
\* 'content' of an entry is read from the working tree and not modelled.
get_relevant_files(query, repo, top_k) ==
    IF repo.kind # "indexed"
    THEN [error |-> "", value |-> <<>>]
    ELSE LET files == repo.structure_json.structure.files
             query_terms == split(lower(query))
         IN IF \E i \in DOMAIN files : files[i].docstring = <<>>
            THEN [error |-> "AttributeError", value |-> <<>>]
            ELSE [error |-> "",
                  value |-> Slice(sort_by_relevance(score_files(files, query_terms)),
                                  top_k)]

MaxTopK == 3

Decl(name) == [name |-> name]

\* file records as _parse_repository builds them
RelevanceFiles ==
    << [file_path |-> "services/claim_service.py",
        classes |-> <<Decl("ClaimService"), Decl("ClaimValidator")>>,
        functions |-> <<Decl("process_claim")>>,
        docstring |-> <<"Claim processing service">>],
       [file_path |-> "utils/claim_utils.py",
        classes |-> <<>>,
        functions |-> <<Decl("format_claim")>>,
        docstring |-> <<"">>],
       [file_path |-> "utils/policy_utils.py",
        classes |-> <<>>,
        functions |-> <<Decl("format_policy")>>,
        docstring |-> <<"Helpers">>],
       [file_path |-> "models/policy.py",
        classes |-> <<Decl("Policy")>>,
        functions |-> <<Decl("renew")>>,
        docstring |-> <<"Policy model">>],
       [file_path |-> "routes/legacy.py",
        classes |-> <<>>,
        functions |-> <<Decl("claim_handler")>>,
        docstring |-> <<>>],
       [file_path |-> "app.py",
        classes |-> <<>>,
        functions |-> <<Decl("create_app")>>,
        docstring |-> <<"Application factory">>] >>

\* the elements of xs at the positions in S, in order
RECURSIVE Pick(_, _)
Pick(xs, S) ==
    IF xs = <<>> THEN <<>>
    ELSE (IF Len(xs) \in S THEN Pick(SubSeq(xs, 1, Len(xs) - 1), S) \o <<xs[Len(xs)]>>
          ELSE Pick(SubSeq(xs, 1, Len(xs) - 1), S))

NoRepository == [kind |-> "missing",
                 structure_json |-> [structure |-> [files |-> <<>>]]]

Repositories ==
    {NoRepository, [NoRepository EXCEPT !.kind = "unindexed"]}
    \cup {[kind |-> "indexed",
           structure_json |-> [structure |-> [files |-> Pick(RelevanceFiles, S)]]] :
          S \in SUBSET DOMAIN RelevanceFiles}

Queries ==
    {"claim", "Claim Policy", "claim claim", "utils renew", "app", "", "billing"}

(***************************************************************************)
(* Part IV - the repositories table (services/supabase_client.py) and      *)
(*           connect_repository / refresh_repository                       *)
(*                                                                         *)
(* A column that is NULL is <<>>, one holding v is <<v>>.  The id of a     *)
(* record is its position in the table.  An indexing run is known by its   *)
(* number: the structure, the dependency graph and the time of run n are   *)
(* written n.                                                              *)
(***************************************************************************)
MaxRepositories == 3

Workers == {1, 2}

valid_prefixes == <<"https://github.com/", "http://github.com/", "git@github.com:">>

\* utils/helpers.py validate_github_url
validate_github_url(url) ==
    /\ url # ""
    /\ \E i \in DOMAIN valid_prefixes : startswith(url, valid_prefixes[i])

\* SupabaseClient.create_repository: the insert sets neither structure_json
\* nor last_indexed
create_repository(table, github_url, branch) ==
    Append(table, [id |-> Len(table) + 1,
                   github_url |-> github_url,
                   branch |-> branch,
                   structure_json |-> <<>>,
                   last_indexed |-> <<>>])

\* SupabaseClient.get_repository: <<>> for None
get_repository(table, repo_id) ==
    IF repo_id \in DOMAIN table THEN <<table[repo_id]>> ELSE <<>>

\* SupabaseClient.update_repository: one UPDATE statement
update_repository(table, repo_id, updates) ==
    IF repo_id \in DOMAIN table
    THEN [table EXCEPT ![repo_id] = Merged(@, updates)]
    ELSE table

\* what connect_repository writes for the indexing run n (lines 73-97)
IndexedColumns(n) ==
    [structure_json |-> << [structure |-> n, dependency_graph |-> n] >>,
     last_indexed |-> <<n>>]

\* connect_repository up to and including create_repository (lines 40-90):
\* git is the outcome of the clone or pull and of the size check
connect_repository_insert(table, github_url, branch, git) ==
    IF ~validate_github_url(github_url) \/ git # "ok"
    THEN [error |-> "ValueError", table |-> table, db_repo |-> 0]
    ELSE [error |-> "",
          table |-> create_repository(table, github_url, branch),
          db_repo |-> Len(table) + 1]

GithubUrls ==
    {"https://github.com/acme/claims", "git@github.com:acme/billing.git",
     "ftp://example.com/claims"}

GitOutcomes == {"ok", "GitCommandError", "too_large"}

IdleRequest ==
    [op |-> "idle", pc |-> "idle", repo_id |-> 0, db_repo |-> 0, run |-> 0,
     result_repo_id |-> 0, error |-> ""]

NothingSeen == [repo_id |-> 0, record |-> <<>>, error |-> ""]

(***************************************************************************)
(* Part V - generated code changes (routes/implementation.py,              *)
(*          services/code_generator.py and the code_changes table)         *)
(*                                                                         *)
(* The id of a code change is its position in the table.  writes is the    *)
(* sequence of file writes made in the working tree of the repository.     *)
(* The applied_at column is left out.                                      *)
(***************************************************************************)
MaxChanges == 2

MaxWrites == 2

\* str.endswith(suffix)
endswith(s, suffix) ==
    Len(s) >= Len(suffix)
    /\ SubSeq(s, Len(s) - Len(suffix) + 1, Len(s)) = suffix

\* the texts ast.parse rejects
InvalidPython == {"def f(:"}

\* CodeGenerator.validate_generated_code: the valid flag
validate_generated_code(code, file_path) ==
    IF ~endswith(file_path, ".py")
    THEN [valid |-> TRUE]
    ELSE [valid |-> code \notin InvalidPython]

\* CodeGenerator.generate_implementation, lines 65-96: every generated
\* change is returned, an invalid one with the action 'error'
generate_implementation(changes) ==
    [k \in DOMAIN changes |->
        LET validation ==
                validate_generated_code(changes[k].new_code, changes[k].file_path)
        IN  [file_path |-> changes[k].file_path,
             action |-> IF validation.valid THEN "create" ELSE "error",
             new_code |-> changes[k].new_code,
             validation |-> validation]]

\* SupabaseClient.create_code_change
create_code_change(table, analysis_id, file_path, new_code) ==
    Append(table, [id |-> Len(table) + 1,
                   analysis_id |-> analysis_id,
                   file_path |-> file_path,
                   new_code |-> new_code,
                   status |-> "pending"])

\* routes/implementation.py generate_code, lines 96-105: one record for
\* every change of the generation result
RECURSIVE save_changes(_, _, _)
save_changes(table, analysis_id, changes) ==
    IF changes = <<>> THEN table
    ELSE save_changes(create_code_change(table, analysis_id,
                                         Head(changes).file_path,
                                         Head(changes).new_code),
                      analysis_id, Tail(changes))

\* SupabaseClient.get_code_changes
get_code_changes(table, analysis_id) ==
    SelectSeq(table, LAMBDA c : c.analysis_id = analysis_id)

\* SupabaseClient.update_code_change_status
update_code_change_status(table, change_id, status) ==
    IF change_id \in DOMAIN table
    THEN [table EXCEPT ![change_id].status = status]
    ELSE table

\* routes/implementation.py approve_code_changes, lines 179-189: the status
\* goes to the change and to every change of the same analysis
approve_code_changes(table, change_id, approved) ==
    LET status == IF approved THEN "approved" ELSE "rejected"
    IN  IF change_id \notin DOMAIN table THEN table
        ELSE [c \in DOMAIN table |->
                 IF table[c].analysis_id = table[change_id].analysis_id
                 THEN [table[c] EXCEPT !.status = status]
                 ELSE table[c]]

WriteOf(change_item) ==
    [change_id |-> change_item.id,
     file_path |-> change_item.file_path,
     new_code |-> change_item.new_code]

\* the same writing every change of the analysis, whatever its status
apply_changes_every_status(table, log, change_id, fault) ==
    IF change_id \notin DOMAIN table
       \/ table[change_id].status # "approved"
       \/ fault = "git_init"
    THEN [error |-> "ValueError", table |-> table, log |-> log]
    ELSE LET items == get_code_changes(table, table[change_id].analysis_id)
             to_write == [k \in DOMAIN items |-> WriteOf(items[k])]
         IN  [error |-> IF fault = "none" THEN "" ELSE "ValueError",
              table |-> IF fault # "none" THEN table
                        ELSE [c \in DOMAIN table |->
                                 IF table[c].analysis_id
                                       = table[change_id].analysis_id
                                 THEN [table[c] EXCEPT !.status = "applied"]
                                 ELSE table[c]],
              log |-> log \o (IF fault = "write"
                              THEN SubSeq(to_write, 1, Len(to_write) - 1)
                              ELSE to_write)]

\* CodeGenerator.apply_changes(change_id, repo_path): log is the sequence of
\* writes made so far.  fault is what fails: nothing, Repo(repo_path), the
\* write of the last file, or the commit.
apply_changes(table, log, change_id, fault) ==
    IF change_id \notin DOMAIN table
    THEN [error |-> "ValueError", table |-> table, log |-> log]
    ELSE IF table[change_id].status # "approved"
    THEN [error |-> "ValueError", table |-> table, log |-> log]
    ELSE IF fault = "git_init"
    THEN [error |-> "ValueError", table |-> table, log |-> log]
    ELSE LET all_changes == get_code_changes(table, table[change_id].analysis_id)
             items == SelectSeq(all_changes, LAMBDA c : c.status = "approved")
             to_write == [k \in DOMAIN items |-> WriteOf(items[k])]
         IN  IF fault = "write"
             THEN [error |-> "ValueError", table |-> table,
                   log |-> log \o SubSeq(to_write, 1, Len(to_write) - 1)]
             ELSE IF fault = "commit"
             THEN [error |-> "ValueError", table |-> table,
                   log |-> log \o to_write]
             ELSE [error |-> "",
                   table |-> [c \in DOMAIN table |->
                                 IF \E k \in DOMAIN items : items[k].id = c
                                 THEN [table[c] EXCEPT !.status = "applied"]
                                 ELSE table[c]],
                   log |-> log \o to_write]

\* the impact analyses on record
AnalysisIds == {1, 2}

\* what ClaudeService.generate_code may return as 'changes'
Generations ==
    { << [file_path |-> "services/claims.py", new_code |-> "x = 1"] >>,
      << [file_path |-> "services/billing.py", new_code |-> "def f(:"] >>,
      << [file_path |-> "notes.md", new_code |-> "def f(:"],
         [file_path |-> "services/claims.py", new_code |-> "def f(:"] >> }

ApplyFaults == {"none", "git_init", "write", "commit"}

NoCall == [op |-> "", change_id |-> 0, error |-> ""]

(***************************************************************************)
(* Part VI - ClaudeService.analyze_architecture_question and its cache of  *)
(*           system contexts (services/claude_service.py)                  *)
(*                                                                         *)
(* The text of a context is kept as the two things formatted into it: the  *)
(* repository structure and the path and content of the relevant files.    *)
(* The inputs are shorter than the cuts at 2000 and 5000 characters.       *)
(***************************************************************************)
\* f"repo_{hash(json.dumps(repo_structure, sort_keys=True))}"
cache_key(repo_structure) == <<"repo", repo_structure>>

\* ClaudeService._build_cached_context
_build_cached_context(repo_structure, relevant_files) ==
    LET files == Slice(relevant_files, 10)
    IN  << [type |-> "text",
            text |-> [repo_structure |-> repo_structure,
                      files_content |->
                          [k \in DOMAIN files |->
                              [file_path |-> files[k].file_path,
                               content |-> files[k].content]]],
            cache_control |-> [type |-> "ephemeral"]] >>

\* analyze_architecture_question, lines 49-61: the context is built and
\* stored on a miss and taken from the cache on a hit
system_context_for(cache, repo_structure, relevant_files) ==
    LET key == cache_key(repo_structure)
    IN  IF key \notin DOMAIN cache
        THEN [cache |-> (key :> _build_cached_context(repo_structure,
                                                      relevant_files)) @@ cache,
              system_context |-> _build_cached_context(repo_structure,
                                                       relevant_files)]
        ELSE [cache |-> cache, system_context |-> cache[key]]

EmptyCache == [key \in {} |-> <<>>]

\* repository structures a question may come with
ContextStructures ==
    {EmptyStructure,
     [EmptyStructure EXCEPT !.files = <<[file_path |-> "app.py"]>>,
                            !.files_parsed = 1]}

\* what get_relevant_files may have returned for a question
ContextFiles ==
    {<<>>,
     <<[file_path |-> "app.py", relevance_score |-> 4,
        content |-> "app = create_app()"]>>,
     <<[file_path |-> "services/claims.py", relevance_score |-> 6,
        content |-> "class ClaimService: pass"],
       [file_path |-> "app.py", relevance_score |-> 4,
        content |-> "app = create_app()"]>>}

NoQuestion ==
    [asked |-> FALSE, repo_structure |-> EmptyStructure,
     relevant_files |-> <<>>, system |-> <<>>, error |-> ""]

(***************************************************************************)
(* State machine                                                           *)
(***************************************************************************)
RiskIdle ==
    /\ rpc = "init"
    /\ impact_data = NoData
    /\ risk_out = ""
    /\ prev_data = NoData
    /\ prev_out = ""

AnalyzeIdle ==
    /\ pc = "idle"
    /\ change_request = ""
    /\ structure = IndexOf(0)
    /\ dependency_graph = EmptyGraph
    /\ response = [kind |-> "", shape |-> "", json |-> DefaultObject, text |-> ""]
    /\ claude_analysis = analyze_impact(DefaultObject)
    /\ seed_files = <<>>
    /\ used_fallback = FALSE
    /\ report = EmptyReport
    /\ error = ""

IndexIdle ==
    /\ ipc = "idle"
    /\ graph_structure = [files |-> <<>>]
    /\ graph_result = build_dependency_graph(graph_structure)
    /\ ast_has_Str = TRUE
    /\ source_file = [parts |-> <<>>, kind |-> "", body |-> <<>>]
    /\ parse_result = ParseNone
    /\ repo_tree = [root_kind |-> "", root_parts |-> <<>>, files |-> <<>>]
    /\ repo_index = EmptyStructure
    /\ index_error = ""
    /\ parser_state = NothingCollected
    /\ parser_calls = <<>>
    /\ rel_query = ""
    /\ rel_repo = NoRepository
    /\ rel_top_k = 0
    /\ rel_result = <<>>
    /\ rel_error = ""

StoreIdle ==
    /\ repositories = <<>>
    /\ index_runs = 0
    /\ calls = [w \in Workers |-> IdleRequest]
    /\ seen = NothingSeen

ChangeIdle ==
    /\ code_changes = <<>>
    /\ writes = <<>>
    /\ change_call = NoCall

CacheIdle ==
    /\ _cached_contexts = EmptyCache
    /\ question_call = NoQuestion

ServiceIdle == StoreIdle /\ ChangeIdle /\ CacheIdle

Init == RiskIdle /\ AnalyzeIdle /\ IndexIdle /\ ServiceIdle

\* calculate_risk_level called on some impact data
RiskCall ==
    /\ rpc = "init"
    /\ pc = "idle"
    /\ \E n \in 0..MaxAffected, ho \in BOOLEAN, ac \in BOOLEAN,
          w \in 0..MaxWarnings :
          /\ impact_data' = ImpactData(n, ho, ac, w)
          /\ risk_out' = calculate_risk_level(impact_data')
    /\ rpc' = "once"
    /\ UNCHANGED <<prev_data, prev_out>>
    /\ UNCHANGED <<analyzeVars, indexVars, serviceVars>>

\* calculate_risk_level called again with more affected files and everything
\* else as before
RiskCallMore ==
    /\ rpc = "once"
    /\ \E n \in (Len(impact_data.affected_files) + 1)..MaxAffected :
          /\ impact_data' =
                 [impact_data EXCEPT !.affected_files = [i \in 1..n |-> RiskFile(i)]]
          /\ risk_out' = calculate_risk_level(impact_data')
    /\ prev_data' = impact_data
    /\ prev_out' = risk_out
    /\ rpc' = "twice"
    /\ UNCHANGED <<analyzeVars, indexVars, serviceVars>>

\* One request handled by analyze_change_impact
AnalyzeChangeImpact ==
    /\ pc = "idle"
    /\ rpc = "init"
    /\ \E request \in Descriptions, k \in 0..Len(FileUniverse),
          resp \in Responses :
          LET struct == IndexOf(k)
          IN  \E graph \in GraphsOf(struct) \cup MismatchedGraphsOf(struct)
                              \cup {EmptyGraph} :
                 \E out \in {analyze_change_impact(request, struct, graph, resp)} :
                     /\ change_request' = request
                     /\ structure' = struct
                     /\ dependency_graph' = graph
                     /\ response' = resp
                     /\ claude_analysis' = out.claude_analysis
                     /\ seed_files' = out.seed_files
                     /\ used_fallback' = out.used_fallback
                     /\ report' = out.report
                     /\ error' = out.error
                     /\ pc' = IF out.error = "" THEN "done" ELSE "failed"
    /\ UNCHANGED <<riskVars, indexVars, serviceVars>>

\* calculate_risk_level keeps no state and the handler keeps none between
\* requests, so a behaviour exercises one of the two: either the pure
\* function is applied (once, then again on a longer file list) or one
\* request is handled.
Next == RiskCall \/ RiskCallMore \/ AnalyzeChangeImpact

Spec == Init /\ [][Next]_vars

\* build_dependency_graph applied to an index
BuildDependencyGraph ==
    /\ ipc = "idle"
    /\ \E struct \in GraphIndexes :
          /\ graph_structure' = struct
          /\ graph_result' = build_dependency_graph(struct)
    /\ ipc' = "graph"
    /\ UNCHANGED <<riskVars, analyzeVars, serviceVars, parserVars, relevanceVars>>

\* parse_python_file applied to a file
ParsePythonFile ==
    /\ ipc = "idle"
    /\ \E file \in ParserFiles, has \in BOOLEAN :
          /\ source_file' = file
          /\ ast_has_Str' = has
          /\ parse_result' = parse_python_file(file, has)
          /\ parser_state' = IF file.kind = "valid"
                              THEN ASTParser_parse(file.body, has).parser
                              ELSE NothingCollected
    /\ ipc' = "file"
    /\ UNCHANGED <<riskVars, analyzeVars, serviceVars, graphVars, repo_tree, repo_index,
                   index_error, parser_calls, relevanceVars>>

\* _parse_repository applied to a working tree
ParseRepository ==
    /\ ipc = "idle"
    /\ \E tree \in Trees, has \in BOOLEAN :
          \E out \in {_parse_repository(tree, has)} :
              /\ repo_tree' = tree
              /\ ast_has_Str' = has
              /\ repo_index' = out.structure
              /\ index_error' = out.error
              /\ parser_calls' =
                    files_given_to_parser(IF tree.root_kind = "dir"
                                          THEN tree.files ELSE <<>>,
                                          tree.root_parts)
    /\ ipc' = "tree"
    /\ UNCHANGED <<riskVars, analyzeVars, serviceVars, graphVars, source_file, parse_result,
                   parser_state, relevanceVars>>

\* get_relevant_files applied to a query and the stored record
GetRelevantFiles ==
    /\ ipc = "idle"
    /\ \E query \in Queries, repo \in Repositories, top_k \in 0..MaxTopK :
          \E out \in {get_relevant_files(query, repo, top_k)} :
              /\ rel_query' = query
              /\ rel_repo' = repo
              /\ rel_top_k' = top_k
              /\ rel_result' = out.value
              /\ rel_error' = out.error
    /\ ipc' = "relevant"
    /\ UNCHANGED <<riskVars, analyzeVars, serviceVars, graphVars, parserVars>>

\* The analyzer and the parser keep no state between calls: a behaviour
\* applies one of them to one input.
IndexNext ==
    \/ BuildDependencyGraph
    \/ ParsePythonFile
    \/ ParseRepository
    \/ GetRelevantFiles

IndexSpec == Init /\ [][IndexNext]_vars

\* a request thread is free when it has no call between its insert and its
\* update
Free(w) == calls[w].pc # "inserted"

\* connect_repository, first part: validation, clone or pull, parsing, graph
\* and the insert of the record
ConnectInsert(w) ==
    /\ Free(w)
    /\ Len(repositories) < MaxRepositories
    /\ \E github_url \in GithubUrls, git \in GitOutcomes :
          \E out \in {connect_repository_insert(repositories, github_url,
                                                "main", git)} :
              /\ repositories' = out.table
              /\ index_runs' = IF out.error = "" THEN index_runs + 1
                               ELSE index_runs
              /\ calls' = [calls EXCEPT ![w] =
                    [op |-> "connect",
                     pc |-> IF out.error = "" THEN "inserted" ELSE "raised",
                     repo_id |-> 0,
                     db_repo |-> out.db_repo,
                     run |-> IF out.error = "" THEN index_runs + 1 ELSE 0,
                     result_repo_id |-> 0,
                     error |-> out.error]]
    /\ UNCHANGED seen
    /\ UNCHANGED <<riskVars, analyzeVars, indexVars, changeVars, cacheVars>>

\* refresh_repository, first part: the lookup of the record, then
\* connect_repository with its github_url and branch up to the insert
RefreshInsert(w) ==
    /\ Free(w)
    /\ Len(repositories) < MaxRepositories
    /\ \E repo_id \in 1..MaxRepositories, git \in GitOutcomes :
          \E repo \in {get_repository(repositories, repo_id)} :
          \E out \in {IF repo = <<>>
                      THEN [error |-> "ValueError", table |-> repositories,
                            db_repo |-> 0]
                      ELSE connect_repository_insert(repositories,
                                                     repo[1].github_url,
                                                     repo[1].branch, git)} :
              /\ repositories' = out.table
              /\ index_runs' = IF out.error = "" THEN index_runs + 1
                               ELSE index_runs
              /\ calls' = [calls EXCEPT ![w] =
                    [op |-> "refresh",
                     pc |-> IF out.error = "" THEN "inserted" ELSE "raised",
                     repo_id |-> repo_id,
                     db_repo |-> out.db_repo,
                     run |-> IF out.error = "" THEN index_runs + 1 ELSE 0,
                     result_repo_id |-> 0,
                     error |-> out.error]]
    /\ UNCHANGED seen
    /\ UNCHANGED <<riskVars, analyzeVars, indexVars, changeVars, cacheVars>>

\* connect_repository, second part: update_repository(db_repo['id'], ...)
\* and the return of db_repo['id']
ConnectUpdate(w) ==
    /\ calls[w].pc = "inserted"
    /\ repositories' = update_repository(repositories, calls[w].db_repo,
                                         IndexedColumns(calls[w].run))
    /\ calls' = [calls EXCEPT ![w].pc = "returned",
                                  ![w].result_repo_id = calls[w].db_repo]
    /\ UNCHANGED <<index_runs, seen>>
    /\ UNCHANGED <<riskVars, analyzeVars, indexVars, changeVars, cacheVars>>

\* an analyze request (routes/analysis.py 76-101): the record it fetches
\* and, for a record whose structure_json is NULL, the AttributeError of
\* None.get at impact_detector.py line 64
AnalyzeRequest ==
    /\ \E repo_id \in 1..MaxRepositories :
          \E repo \in {get_repository(repositories, repo_id)} :
              seen' = [repo_id |-> repo_id,
                       record |-> repo,
                       error |-> IF repo # <<>> /\ repo[1].structure_json = <<>>
                                 THEN "AttributeError" ELSE ""]
    /\ UNCHANGED <<repositories, index_runs, calls>>
    /\ UNCHANGED <<riskVars, analyzeVars, indexVars, changeVars, cacheVars>>

\* Requests are served by threads: the calls of one request on the table
\* interleave with those of the others.
StoreNext ==
    \/ \E w \in Workers : ConnectInsert(w)
    \/ \E w \in Workers : RefreshInsert(w)
    \/ \E w \in Workers : ConnectUpdate(w)
    \/ AnalyzeRequest

StoreSpec == Init /\ [][StoreNext]_vars

\* POST /generate: 400 without analysis_id (0) or without approval;
\* otherwise the code is generated and validated and every change of the
\* result is saved
GenerateCode ==
    /\ \E analysis_id \in AnalysisIds \cup {0}, approved \in BOOLEAN,
          changes \in Generations :
          /\ Len(code_changes) + Len(changes) <= MaxChanges
          /\ IF analysis_id = 0 \/ ~approved
             THEN /\ code_changes' = code_changes
                  /\ change_call' = [op |-> "generate", change_id |-> 0,
                                     error |-> "400"]
             ELSE /\ code_changes' =
                        save_changes(code_changes, analysis_id,
                                     generate_implementation(changes))
                  /\ change_call' = [op |-> "generate",
                                     change_id |-> Len(code_changes) + 1,
                                     error |-> ""]
    /\ UNCHANGED writes
    /\ UNCHANGED <<riskVars, analyzeVars, indexVars, storeVars, cacheVars>>

\* POST /changes/<change_id>/approve
ApproveCodeChanges ==
    /\ \E change_id \in 1..MaxChanges, approved \in BOOLEAN :
          /\ code_changes' = approve_code_changes(code_changes, change_id,
                                                  approved)
          /\ change_call' = [op |-> "approve", change_id |-> change_id,
                             error |-> ""]
    /\ UNCHANGED writes
    /\ UNCHANGED <<riskVars, analyzeVars, indexVars, storeVars, cacheVars>>

\* POST /changes/<change_id>/apply: 404 for a change that is not on record,
\* otherwise apply_changes
ApplyCodeChanges ==
    /\ \E change_id \in 1..MaxChanges, fault \in ApplyFaults :
          \E out \in {IF change_id \notin DOMAIN code_changes
                      THEN [error |-> "404", table |-> code_changes,
                            log |-> writes]
                      ELSE apply_changes(code_changes, writes, change_id,
                                         fault)} :
              /\ Len(out.log) <= MaxWrites
              /\ code_changes' = out.table
              /\ writes' = out.log
              /\ change_call' = [op |-> "apply", change_id |-> change_id,
                                 error |-> out.error]
    /\ UNCHANGED <<riskVars, analyzeVars, indexVars, storeVars, cacheVars>>

ChangeNext == GenerateCode \/ ApproveCodeChanges \/ ApplyCodeChanges

ChangeSpec == Init /\ [][ChangeNext]_vars

\* analyze_architecture_question: the context comes from the cache or is
\* built and stored, then the API is called with it; a failure of the API
\* is a ValueError and leaves the cache as it then is
AnalyzeArchitectureQuestion ==
    /\ \E repo_structure \in ContextStructures,
          relevant_files \in ContextFiles, api_ok \in BOOLEAN :
          \E out \in {system_context_for(_cached_contexts, repo_structure,
                                         relevant_files)} :
              /\ _cached_contexts' = out.cache
              /\ question_call' = [asked |-> TRUE,
                                   repo_structure |-> repo_structure,
                                   relevant_files |-> relevant_files,
                                   system |-> out.system_context,
                                   error |-> IF api_ok THEN ""
                                             ELSE "ValueError"]
    /\ UNCHANGED <<riskVars, analyzeVars, indexVars, storeVars, changeVars>>

CacheNext == AnalyzeArchitectureQuestion

CacheSpec == Init /\ [][CacheNext]_vars

(***************************************************************************)
(* Claims                                                                  *)
(***************************************************************************)
Rank(level) ==
    CASE level = "low" -> 1
      [] level = "medium" -> 2
      [] level = "high" -> 3
      [] level = "critical" -> 4

\* The priority table of the risk rules, each level by its own condition
TableLevel(n, has_overlaps, affects_core, w) ==
    CASE affects_core /\ w > 3 -> "critical"
      [] ~(affects_core /\ w > 3) /\ (affects_core \/ n > 8) -> "high"
      [] ~affects_core /\ n <= 8 /\ (has_overlaps \/ n > 3) -> "medium"
      [] ~affects_core /\ n <= 3 /\ ~has_overlaps -> "low"

\* C1: calculate_risk_level returns the level of the priority table for every
\* affected-file count n, has_overlaps, affects_core and warning count w:
\* critical when affects_core and w > 3, else high when affects_core or
\* n > 8, else medium when has_overlaps or n > 3, else low; n = 9 without
\* core files and without warnings is high. In a report the level is the
\* table's for the expanded file count, the presence of overlaps, the core
\* test of the expanded files and the number of external warnings only (the
\* warnings generated from overlaps are not counted).
C1_RiskTable ==
    /\ rpc # "init" =>
          LET n == Len(impact_data.affected_files)
              w == Len(impact_data.warnings)
          IN  /\ risk_out = TableLevel(n, impact_data.has_overlaps,
                                       impact_data.affects_core, w)
              /\ (n = 9 /\ ~impact_data.affects_core /\ w = 0)
                     => risk_out = "high"
    /\ pc = "done" =>
          report.risk_level =
              TableLevel(Cardinality(report.affected_files),
                         Len(report.overlaps) > 0,
                         \E f \in report.affected_files :
                             \E k \in DOMAIN core_keywords :
                                 StrIn(core_keywords[k], lower(f)),
                         Len(claude_analysis.warnings))

\* C1 witness: nine affected files, overlaps, no core file and no warnings
\* were classified high
C1_Witness ==
    /\ rpc = "once"
    /\ Len(impact_data.affected_files) = 9
    /\ impact_data.has_overlaps
    /\ ~impact_data.affects_core
    /\ Len(impact_data.warnings) = 0
    /\ risk_out = "high"

\* C2: risk monotonicity: with has_overlaps, affects_core and the warnings
\* fixed, the level computed for a longer affected-file list is at least the
\* level computed for a shorter one, in the order low < medium < high <
\* critical.
C2_RiskMonotone ==
    (/\ rpc = "twice"
     /\ prev_data.has_overlaps = impact_data.has_overlaps
     /\ prev_data.affects_core = impact_data.affects_core
     /\ prev_data.warnings = impact_data.warnings
     /\ Len(prev_data.affected_files) <= Len(impact_data.affected_files))
    => Rank(prev_out) <= Rank(risk_out)

\* C2 witness: the level rose from low to high when the list grew
C2_Witness ==
    /\ rpc = "twice"
    /\ Len(prev_data.affected_files) < Len(impact_data.affected_files)
    /\ prev_out = "low"
    /\ risk_out = "high"

IndexPaths == {structure.files[i].file_path : i \in DOMAIN structure.files}

NoDuplicates(seq) == \A i, j \in DOMAIN seq : seq[i] = seq[j] => i = j

\* The seed list as the claim words it: the tokens are those of the string
\* tokens_of, longer than 3 characters, looked up in the lower-cased path
SeedIsKeywordMatches(tokens_of) ==
    LET tokens == split(tokens_of)
    IN  /\ NoDuplicates(seed_files)
        /\ Range(seed_files) =
               {p \in IndexPaths :
                   \E k \in DOMAIN tokens :
                       Len(tokens[k]) > 3 /\ StrIn(tokens[k], lower(p))}

\* C4 as stated: with a non-empty external affected_files the seed list is
\* that list and the fallback is not consulted; otherwise the seeds are
\* exactly the indexed files whose lower-cased path contains a
\* whitespace-separated token of the change description longer than 3
\* characters, each once.
C4_SeedSelection_AsStated ==
    pc = "done" =>
        IF Len(claude_analysis.affected_files) > 0
        THEN seed_files = claude_analysis.affected_files /\ ~used_fallback
        ELSE used_fallback /\ SeedIsKeywordMatches(change_request)

\* C4 amended: as stated, but the tokens are those of the lower-cased change
\* description ("Data" in the description selects data.py).
C4_SeedSelection ==
    pc = "done" =>
        IF Len(claude_analysis.affected_files) > 0
        THEN seed_files = claude_analysis.affected_files /\ ~used_fallback
        ELSE used_fallback /\ SeedIsKeywordMatches(lower(change_request))

\* C4 witness: the fallback seeded data.py from the capitalised token "Data"
\* and left out api.py, whose only matching token has 3 characters
C4_Witness ==
    /\ pc = "done"
    /\ used_fallback
    /\ change_request = "fix Data api"
    /\ {"data.py", "api.py"} \subseteq IndexPaths
    /\ seed_files = <<"data.py">>

\* The files the fallback must seed: those whose name has a token of the
\* change description, longer than min_len characters, as a substring
FallbackSeedsNamed(min_len) ==
    LET tokens == split(change_request)
    IN  \A p \in IndexPaths : \A k \in DOMAIN tokens :
            (Len(tokens[k]) > min_len /\ StrIn(tokens[k], p))
                => (p \in Range(seed_files) /\ p \in report.affected_files)

\* C5 as stated: without an external opinion, every indexed file whose name
\* has some token of the change description as a substring is in the seed
\* set and in the returned affected_files.
C5_Fallback_AsStated ==
    (pc = "done" /\ Len(claude_analysis.affected_files) = 0)
        => FallbackSeedsNamed(0)

\* C5 amended: as stated, for the tokens longer than 3 characters.
C5_Fallback ==
    (pc = "done" /\ Len(claude_analysis.affected_files) = 0)
        => FallbackSeedsNamed(3)

\* C5 witness: without an external opinion the token "auth" seeded auth.py
C5_Witness ==
    /\ pc = "done"
    /\ Len(claude_analysis.affected_files) = 0
    /\ change_request = "update auth _login"
    /\ "auth.py" \in IndexPaths
    /\ "auth.py" \in Range(seed_files)
    /\ "auth.py" \in report.affected_files

ImportEdges ==
    {dependency_graph.edges[i] : i \in
        {j \in DOMAIN dependency_graph.edges :
            dependency_graph.edges[j].type = "imports"}}

C7_ImportersAffected ==
    pc = "done" =>
        \A e \in ImportEdges :
            e.target \in Range(seed_files) => e.source \in report.affected_files

Declarations == structure.classes \o structure.functions

\* The words of a feature name: the name lower-cased and split at whitespace
\* (str.split), so a name without whitespace is one word
MentionedIn(name, description) ==
    LET words == split(lower(name))
    IN  \E k \in DOMAIN words :
            Len(words[k]) > 4 /\ StrIn(words[k], lower(description))

C9_CompoundNameOverlap ==
    (/\ pc = "done"
     /\ change_request = "fix ClaimApproval logic"
     /\ \E c \in DOMAIN structure.classes :
            structure.classes[c].name = "ClaimApprovalService")
    => \E i \in DOMAIN report.overlaps :
           /\ report.overlaps[i].feature_name = "ClaimApprovalService"
           /\ \A j \in DOMAIN report.overlaps :
                  report.overlaps[j].feature_name = "ClaimApprovalService"
                      => j = i

\* C10: the warnings of the report are exactly the external warnings followed
\* by one generated conflict description per overlap entry: empty without
\* external warnings and overlaps, and holding every overlap entry's
\* conflict_description.
C10_Warnings ==
    pc = "done" =>
        LET external == claude_analysis.warnings
            n == Len(external)
        IN  /\ Len(report.warnings) = n + Len(report.overlaps)
            /\ SubSeq(report.warnings, 1, n) = external
            /\ \A i \in DOMAIN report.overlaps :
                   /\ report.warnings[n + i] =
                          report.overlaps[i].conflict_description
                   /\ report.overlaps[i].conflict_description =
                          "Change may conflict with existing feature: "
                              \o report.overlaps[i].feature_name
            /\ (n = 0 /\ Len(report.overlaps) = 0) => report.warnings = <<>>

\* C10 witness: a report with external warnings and an overlap entry
C10_Witness ==
    /\ pc = "done"
    /\ Len(claude_analysis.warnings) = 2
    /\ Len(report.overlaps) = 1
    /\ Len(report.warnings) = 3

(***************************************************************************)
(* Failure semantics of analyze_change_impact                              *)
(***************************************************************************)
\* No external opinion came: the call raised, or the answer had no content
OpinionMissing == response.kind \in {"prompt_error", "api_error", "no_content"}

\* C11: analyze returns a report rather than failing whenever the external
\* opinion is missing or unavailable, the index is empty, or the graph is
\* empty; when all three hold the report has no affected files, no overlaps,
\* no warnings, risk_level low and should_proceed true.
C11_NeverFails ==
    LET no_index == Len(structure.files) = 0
        no_graph == dependency_graph = EmptyGraph
    IN  (pc # "idle" /\ (OpinionMissing \/ no_index \/ no_graph)) =>
            /\ pc = "done"
            /\ (OpinionMissing /\ no_index /\ no_graph) =>
                   /\ report.affected_files = {}
                   /\ report.overlaps = <<>>
                   /\ report.warnings = <<>>
                   /\ report.risk_level = "low"
                   /\ report.should_proceed

NodeIds == {dependency_graph.nodes[i].id : i \in DOMAIN dependency_graph.nodes}

\* Edges of the graph an end of which is no node of the graph, and imports
\* edges an end of which is no file of the index
MismatchedEdges ==
    {e \in Range(dependency_graph.edges) :
        \/ e.source \notin NodeIds
        \/ e.target \notin NodeIds
        \/ e.type = "imports" /\ (e.source \notin IndexPaths \/
                                  e.target \notin IndexPaths)}

\* C12: given a graph with an edge whose source or target is not a node of
\* the graph or not a file of the index, analyze reports an error to its
\* caller and returns no report; it never returns a report whose
\* affected_files contain a path that is absent from the index because of
\* such an edge.
C12_MismatchedGraphRejected ==
    (pc # "idle" /\ MismatchedEdges # {}) =>
        /\ pc = "failed"
        /\ error # ""
        /\ \A e \in MismatchedEdges :
               (e.target \notin IndexPaths /\ e.target \notin Range(seed_files))
                   => e.target \notin report.affected_files

\* The answer came and is not a JSON object of the documented shape
OpinionMalformed ==
    \/ response.kind \in {"not_json", "not_object"}
    \/ response.kind = "object" /\ response.shape # "ok"

\* C13: a malformed external opinion (text that is not JSON, JSON that is
\* not an object, or an object whose fields have the wrong shape) is never
\* an error: analyze treats it like an absent opinion, seeds by keyword
\* fallback and returns a report.
C13_MalformedOpinionTolerated ==
    (pc # "idle" /\ OpinionMalformed) =>
        /\ pc = "done"
        /\ error = ""
        /\ used_fallback
        /\ seed_files = _find_files_by_keywords(change_request, structure)

(***************************************************************************)
(* build_dependency_graph                                                  *)
(***************************************************************************)
GraphNodes == Range(graph_result.nodes)

GraphEdges == graph_result.edges

\* The positions in the edge list of the contains edges that end in id
IncomingContains(id) ==
    {j \in DOMAIN GraphEdges :
        GraphEdges[j].target = id /\ GraphEdges[j].type = "contains"}

\* The node ids the declarations of the index call for
DeclaredIds ==
    UNION { {f.file_path \o "::" \o f.classes[i].name : i \in DOMAIN f.classes}
            \cup
            {f.file_path \o "::" \o f.functions[i].name : i \in DOMAIN f.functions}
            : f \in Range(graph_structure.files) }

\* C14: in every graph produced by build_dependency_graph, each class or
\* function node "<file_path>::<name>" has exactly one incoming contains
\* edge and that edge comes from the node of its owning file, also when a
\* file declares a class and a function with the same name or when the same
\* declaration name occurs in several files.
C14_Containment ==
    ipc = "graph" =>
        /\ DeclaredIds = {n.id : n \in {m \in GraphNodes : m.type # "file"}}
        /\ \A n \in GraphNodes :
               n.type \in {"class", "function"} =>
                   /\ Cardinality(IncomingContains(n.id)) = 1
                   /\ \A j \in IncomingContains(n.id) :
                          /\ GraphEdges[j].source = n.file
                          /\ startswith(n.id, n.file \o "::")
                          /\ \E m \in GraphNodes :
                                 m.id = n.file /\ m.type = "file"

\* C14 witness: a.py declares Claim as a class and as a function, pkg/c.py
\* declares a class Claim too; each of the two Claim nodes has its one
\* contains edge
C14_Witness ==
    /\ ipc = "graph"
    /\ Len(graph_structure.files) = 3
    /\ graph_structure.files[1].classes = << [name |-> "Claim"] >>
    /\ graph_structure.files[1].functions = << [name |-> "Claim"] >>
    /\ \E n \in GraphNodes : n.id = "a.py::Claim" /\ n.type = "function"
    /\ \E n \in GraphNodes : n.id = "pkg/c.py::Claim" /\ n.type = "class"
    /\ Cardinality(IncomingContains("a.py::Claim")) = 1
    /\ Cardinality(IncomingContains("pkg/c.py::Claim")) = 1

\* C15: every cycle in circular_dependencies is a sequence of distinct nodes
\* in which each consecutive pair, and the pair (last, first), is an edge of
\* the returned edge list; every node on a reported cycle is a file node and
\* the edges of the cycle are imports edges.
C15_CycleSoundness ==
    ipc = "graph" =>
        \A c \in graph_result.circular_dependencies :
            /\ Len(c) > 0
            /\ NoDuplicates(c)
            /\ \A i \in DOMAIN c :
                   /\ \E e \in Range(GraphEdges) :
                          /\ e.source = c[i]
                          /\ e.target = c[(i % Len(c)) + 1]
                          /\ e.type = "imports"
                   /\ \E n \in GraphNodes : n.id = c[i] /\ n.type = "file"

\* C15 witness: a cycle through three files, in a graph that has contains
\* edges as well
C15_Witness ==
    /\ ipc = "graph"
    /\ \E c \in graph_result.circular_dependencies :
           Range(c) = {"a.py", "b.py", "pkg/c.py"}
    /\ \E e \in Range(GraphEdges) : e.type = "contains"

\* The index of the scenario: a.py with a from-style import of module b, and
\* b.py
ScenarioIndex ==
    /\ ipc = "graph"
    /\ Len(graph_structure.files) = 2
    /\ graph_structure.files[1].file_path = "a.py"
    /\ graph_structure.files[2].file_path = "b.py"
    /\ graph_structure.files[1].imports = << FromImport("b") >>

ImportsEdge(u, v) ==
    \E e \in Range(GraphEdges) :
        e.source = u /\ e.target = v /\ e.type = "imports"

\* C16: for an index of two files a.py and b.py: when a.py has a from-style
\* import of module b and b.py has no imports, the graph has the imports
\* edge a.py -> b.py, no imports edge b.py -> a.py and zero cycles; when
\* b.py additionally has a from-style import of module a, there is exactly
\* one simple cycle, whose node set is {a.py, b.py}.
C16_TwoFileScenario ==
    ScenarioIndex =>
        /\ graph_structure.files[2].imports = <<>> =>
               /\ ImportsEdge("a.py", "b.py")
               /\ ~ImportsEdge("b.py", "a.py")
               /\ graph_result.circular_dependencies = {}
        /\ graph_structure.files[2].imports = << FromImport("a") >> =>
               /\ ImportsEdge("a.py", "b.py")
               /\ ImportsEdge("b.py", "a.py")
               /\ Cardinality(graph_result.circular_dependencies) = 1
               /\ \A c \in graph_result.circular_dependencies :
                      Range(c) = {"a.py", "b.py"} /\ Len(c) = 2

\* C16 witness: the second scenario, with its one cycle
C16_Witness ==
    /\ ScenarioIndex
    /\ graph_structure.files[2].imports = << FromImport("a") >>
    /\ graph_result.circular_dependencies = { <<"a.py", "b.py">> }

(***************************************************************************)
(* parse_python_file and _parse_repository                                 *)
(***************************************************************************)
NamesOf(decls) == [i \in DOMAIN decls |-> decls[i].name]

\* The names a module body declares with statements of one kind, in order
DeclaredNames(body, kind) ==
    NamesOf(SelectSeq(body, LAMBDA st : st.kind = kind))

\* C17: for every syntactically valid source file, parse_python_file returns
\* a structure (not an error value and not an empty result) whose
\* 'functions' list has one entry per module-level function and whose
\* 'classes' list has one entry per top-level class, each carrying the
\* declared name.
C17_ValidFileParsed ==
    (ipc = "file" /\ source_file.kind = "valid") =>
        /\ parse_result.outcome = "dict"
        /\ parse_result.error = ""
        /\ NamesOf(parse_result.functions) = DeclaredNames(source_file.body, "def")
        /\ NamesOf(parse_result.classes) = DeclaredNames(source_file.body, "class")

\* The files of the tree that no ignored directory hides and whose parse
\* carries no error
IndexableFiles ==
    LET listed == IF repo_tree.root_kind = "dir" THEN repo_tree.files ELSE <<>>
        Kept(f) ==
            /\ \A i \in DOMAIN f.parts : f.parts[i] \notin ignore_dirs
            /\ \A i \in DOMAIN repo_tree.root_parts :
                   repo_tree.root_parts[i] \notin ignore_dirs
            /\ parse_python_file(f, ast_has_Str).error = ""
    IN  SelectSeq(listed, Kept)

\* The per-file lists of one field of the file records, each entry tagged
\* with the path of its file
RECURSIVE FlattenedField(_, _)
FlattenedField(files, field) ==
    IF files = <<>> THEN <<>>
    ELSE Tagged(Head(files)[field], Head(files).file_path)
         \o FlattenedField(Tail(files), field)

\* C18: after _parse_repository over any tree, the index holds a file record
\* for exactly the eligible source files whose parse produced no error,
\* files_parsed equals the number of those records, and the flattened
\* class, function and import lists are the per-file lists of those records
\* each tagged with the owning file path; a file that fails to parse or to
\* be read is left out without stopping the indexing of the other files and
\* without an exception reaching the caller.
C18_IndexOfParsedFiles ==
    ipc = "tree" =>
        /\ index_error = ""
        /\ repo_index.files_parsed = Len(repo_index.files)
        /\ repo_index.classes = FlattenedField(repo_index.files, "classes")
        /\ repo_index.functions = FlattenedField(repo_index.files, "functions")
        /\ repo_index.imports = FlattenedField(repo_index.files, "imports")
        /\ [i \in DOMAIN repo_index.files |-> repo_index.files[i].file_path]
               = [i \in DOMAIN IndexableFiles |-> JoinPath(IndexableFiles[i].parts)]

\* C19: parse_python_file never raises on malformed or unreadable input: a
\* syntax error, a structural error or a read error yields a result value
\* that carries an 'error' message and empty classes, functions and imports
\* lists.
C19_ParserNeverRaises ==
    ipc = "file" =>
        /\ parse_result.outcome # "raised"
        /\ source_file.kind # "valid" =>
               /\ parse_result.outcome = "dict"
               /\ parse_result.error # ""
               /\ parse_result.classes = <<>>
               /\ parse_result.functions = <<>>
               /\ parse_result.imports = <<>>

\* C19 witness: a file that cannot be opened gave an error value
C19_Witness ==
    /\ ipc = "file"
    /\ source_file.kind = "unreadable"
    /\ parse_result.outcome = "dict"
    /\ parse_result.error = "Parse error"

\* C20: when the repository root given to the index builder does not exist
\* or is not a directory, the builder reports a fatal error to its caller
\* and returns no index (not an empty index with files_parsed = 0).
C20_InvalidRootIsFatal ==
    (ipc = "tree" /\ repo_tree.root_kind # "dir") =>
        /\ index_error # ""
        /\ ~(repo_index.files = <<>> /\ repo_index.files_parsed = 0)

\* C21: the parser's 'functions' list holds exactly the module-level
\* functions of the file: a method of a class appears only in that class's
\* 'methods' list and never in 'functions', and the 'classes' list holds
\* only top-level classes.
C21_OnlyTopLevelDeclarations ==
    (ipc = "file" /\ source_file.kind = "valid") =>
        /\ NamesOf(parser_state.functions) = DeclaredNames(source_file.body, "def")
        /\ NamesOf(parser_state.classes) = DeclaredNames(source_file.body, "class")

(***************************************************************************)
(* get_relevant_files                                                      *)
(***************************************************************************)
RelFiles == rel_repo.structure_json.structure.files

RelTerms == split(lower(rel_query))

\* position in the index of the file an entry of the result names
RelPosition(entry) ==
    CHOOSE i \in DOMAIN RelFiles : RelFiles[i].file_path = entry.file_path

\* positions of the index whose file scores above zero and is not returned
RelLeftOut ==
    {i \in DOMAIN RelFiles :
        /\ file_score(RelFiles[i], RelTerms) > 0
        /\ \A k \in DOMAIN rel_result :
              rel_result[k].file_path # RelFiles[i].file_path}

\* C22: a call of get_relevant_files that returns gives only files of the
\* index with a strictly positive score, at most top_k of them, in
\* non-increasing order of score with equal scores in index order, and every
\* positively scored file it leaves out scores no more than every file it
\* returns.
C22_RankedPositiveTopK ==
    (ipc = "relevant" /\ rel_error = "") =>
        /\ Len(rel_result) <= rel_top_k
        /\ \A k \in DOMAIN rel_result :
              /\ rel_result[k].relevance_score > 0
              /\ \E i \in DOMAIN RelFiles :
                    /\ RelFiles[i].file_path = rel_result[k].file_path
                    /\ file_score(RelFiles[i], RelTerms)
                          = rel_result[k].relevance_score
        /\ \A k, m \in DOMAIN rel_result :
              k < m =>
                 /\ rel_result[k].relevance_score >= rel_result[m].relevance_score
                 /\ (rel_result[k].relevance_score = rel_result[m].relevance_score
                        => RelPosition(rel_result[k]) < RelPosition(rel_result[m]))
        /\ \A i \in RelLeftOut :
              \A k \in DOMAIN rel_result :
                 file_score(RelFiles[i], RelTerms) <= rel_result[k].relevance_score

\* a call that returned top_k files, two of them with equal scores, and left
\* a positively scored file out
C22_Witness ==
    /\ ipc = "relevant"
    /\ rel_error = ""
    /\ Len(rel_result) = rel_top_k
    /\ RelLeftOut # {}
    /\ \E k, m \in DOMAIN rel_result :
          /\ k < m
          /\ rel_result[k].relevance_score = rel_result[m].relevance_score

\* number of query terms found in at least one of the names
TermsFoundInNames(decls) ==
    Cardinality({t \in DOMAIN RelTerms :
                    \E d \in DOMAIN decls : StrIn(RelTerms[t], lower(decls[d].name))})

\* the score the formula of the documentation gives a file, in half points
DocumentedScore(file_info) ==
    4 * TermHits(RelTerms, lower(PathName(file_info.file_path)))
    + 3 * TermsFoundInNames(file_info.classes)
    + 2 * TermsFoundInNames(file_info.functions)
    + (IF file_info.docstring = <<>> THEN 0
       ELSE TermHits(RelTerms, lower(file_info.docstring[1])))

\* C23: on every index, a file without docstring included, the call of
\* get_relevant_files completes and the score of a file is 2.0 per query term
\* in its base name, 1.5 per query term found in any of its class names, 1.0
\* per query term found in any of its function names and 0.5 per query term
\* in its docstring.
C23_ScoreFormula ==
    (ipc = "relevant" /\ rel_repo.kind = "indexed") =>
        /\ rel_error = ""
        /\ \A k \in DOMAIN rel_result :
              rel_result[k].relevance_score
                 = DocumentedScore(RelFiles[RelPosition(rel_result[k])])

\* C24: _parse_repository leaves a file out because of ignore_dirs exactly
\* when a segment of the file's path below the root is in ignore_dirs; every
\* other file under the root is given to the parser, whatever directory
\* names the location of the root holds.
C24_IgnoredBelowRootOnly ==
    (ipc = "tree" /\ repo_tree.root_kind = "dir") =>
        \A f \in Range(repo_tree.files) :
            (f \notin Range(parser_calls))
               <=> (\E i \in DOMAIN f.parts : f.parts[i] \in ignore_dirs)

(***************************************************************************)
(* The repositories table under concurrent requests                        *)
(***************************************************************************)
\* C25: while connect_repository or refresh_repository runs beside analyze
\* requests, every repository record an analyze request fetches carries a
\* structure and a dependency graph, both of the same indexing run.
C25_ReaderSeesCompletePair ==
    seen.record # <<>> =>
        /\ seen.record[1].structure_json # <<>>
        /\ seen.record[1].structure_json[1].structure
              = seen.record[1].structure_json[1].dependency_graph

\* C30: when refresh_repository(repo_id) has returned, the record repo_id
\* carries the structure and the last_indexed time of the run of that call,
\* the returned repo_id is the given one, and the call has inserted no
\* record.
C30_RefreshReindexesRecord ==
    \A w \in Workers :
        (calls[w].op = "refresh" /\ calls[w].pc = "returned") =>
            /\ calls[w].result_repo_id = calls[w].repo_id
            /\ calls[w].db_repo = 0
            /\ repositories[calls[w].repo_id].structure_json
                  = IndexedColumns(calls[w].run).structure_json
            /\ repositories[calls[w].repo_id].last_indexed
                  = IndexedColumns(calls[w].run).last_indexed

(***************************************************************************)
(* Generated code changes                                                  *)
(***************************************************************************)
\* the writes a step adds
NewWrites == SubSeq(writes', Len(writes) + 1, Len(writes'))

\* change c is, before the step, an approved change of the analysis of the
\* change the apply request names
Eligible(c) ==
    /\ change_call'.change_id \in DOMAIN code_changes
    /\ code_changes[c].analysis_id
          = code_changes[change_call'.change_id].analysis_id
    /\ code_changes[c].status = "approved"

StatusForward(old, new) ==
    \/ new = old
    \/ old \in {"pending", "approved", "rejected"}
          /\ new \in {"approved", "rejected"}
    \/ old = "approved" /\ new = "applied"

\* C27: the status of a code change only moves forward (created 'pending',
\* then 'approved' or 'rejected', and 'applied' only from 'approved'; an
\* 'applied' change keeps its status), and no change is written to the
\* repository more than once.
C27_StatusMovesForward ==
    [][/\ \A c \in DOMAIN code_changes' :
             IF c \in DOMAIN code_changes
             THEN StatusForward(code_changes[c].status, code_changes'[c].status)
             ELSE code_changes'[c].status = "pending"
       /\ \A c \in DOMAIN code_changes' :
             Cardinality({k \in DOMAIN writes' : writes'[k].change_id = c}) <= 1]_vars

\* C28: no sequence of generate, approve and apply requests writes to the
\* repository code that validate_generated_code found invalid.
C28_InvalidCodeNeverWritten ==
    \A k \in DOMAIN writes :
        validate_generated_code(writes[k].new_code, writes[k].file_path).valid

(***************************************************************************)
(* The cache of system contexts                                            *)
(***************************************************************************)
\* C29: whatever calls came before on the same ClaudeService, the system
\* context a call of analyze_architecture_question sends is the one
\* _build_cached_context builds from the repository structure and the
\* relevant files of that call.
C29_ContextOfOwnCall ==
    question_call.asked =>
        question_call.system
           = _build_cached_context(question_call.repo_structure,
                                   question_call.relevant_files)

====
